---------------------------- MODULE Spec2Model ----------------------------
(***************************************************************************)
(* Model of the production-system contract (src/src/lib.rs).               *)
(*                                                                         *)
(* contract_logic receives a ContractResult whose `state` is the prior     *)
(* document and edits that state in place; on return the result holds the  *)
(* state, the success flag and the error string.  The model keeps these    *)
(* three fields as variables and applies every event to the document the   *)
(* previous call left in the result.                                       *)
(*                                                                         *)
(* Encodings                                                               *)
(*   String              a TLA+ string                                     *)
(*   Option<T>           None = <<>>, Some(x) = <<x>>                      *)
(*   Vec<T>              a sequence                                        *)
(*   HashMap<String, T>  a function whose domain is the key set            *)
(*   Result<(), String>  the error string; Ok(()) is the empty one         *)
(*   error strings       a sequence: <<>> is the empty string "", a        *)
(*                       message is <<text>> or <<text, argument>>         *)
(*   serde_json::Value   a record tagged by k: null, bool, num, str, arr,  *)
(*                       obj                                               *)
(*   DynamicType         a record tagged by tag                            *)
(*   Fields              a record tagged by tag: Basic(t), Object(fields)  *)
(***************************************************************************)
EXTENDS Integers, Sequences, FiniteSets, TLC

VARIABLES
    state,      \* contract_result.state : ProductionSystem
    success,    \* contract_result.success
    error,      \* contract_result.error
    last,       \* variant of the event of the latest call ("none" before any)
    initialized, \* history: some call so far accepted an Init event
    work        \* the recursion in progress inside a call, step by step (idle
                \* wherever a call is one step)

vars == <<state, success, error, last, initialized, work>>

-----------------------------------------------------------------------------
(* Generic helpers for Option, Result and HashMap.                         *)

None == <<>>

Some(x) == <<x>>

IsSome(o) == o # None

Unwrap(o) == o[1]

Ok == <<>>

Err(msg) == <<msg>>

ErrAt(msg, arg) == <<msg, arg>>

EmptyMap == [x \in {} |-> x]

MapInsert(m, key, v) == [x \in DOMAIN m \cup {key} |-> IF x = key THEN v ELSE m[x]]

MapRemove(m, key) == [x \in DOMAIN m \ {key} |-> m[x]]

\* The keys of a HashMap in the order an iteration visits them.  The order of
\* a HashMap iteration is unspecified; the model visits keys in one fixed
\* order.  Only the text of the first error reported depends on it.
RECURSIVE KeyOrder(_)
KeyOrder(S) ==
    IF S = {} THEN <<>>
    ELSE LET x == CHOOSE y \in S : TRUE IN <<x>> \o KeyOrder(S \ {x})

\* The first non-empty error of a sequence of results (the `?` in a loop).
RECURSIVE FirstError(_)
FirstError(errs) ==
    IF errs = <<>> THEN Ok
    ELSE IF Head(errs) # Ok THEN Head(errs)
    ELSE FirstError(Tail(errs))

\* `e?; rest`: the error e if there is one, else the rest of the function.
Try(e, rest) == IF e # Ok THEN e ELSE rest

\* A faulty count of the distinct names: the length of the list itself.
VecLen(names) == Len(names)

\* The number of distinct names of a list (HashSet::from_iter(..).len()).
HashSetLen(names) == Cardinality({names[i] : i \in DOMAIN names})

-----------------------------------------------------------------------------
(* serde_json::Value accessors.  A number is PosInt(u64), NegInt(i64) or   *)
(* Float(f64); above_i64 tells a PosInt greater than i64::MAX.             *)

as_str(value) == value.k = "str"

as_bool(value) == value.k = "bool"

as_u64(value) == value.k = "num" /\ value.repr = "PosInt"

\* A faulty as_i64: every integer, whatever its magnitude.
as_i64_unbounded(value) ==
    value.k = "num" /\ value.repr \in {"NegInt", "PosInt"}

as_i64(value) ==
    /\ value.k = "num"
    /\ \/ value.repr = "NegInt"
       \/ value.repr = "PosInt" /\ ~value.above_i64

as_f64(value) == value.k = "num"

as_array(value) == value.k = "arr"

as_object(value) == value.k = "obj"

is_null(value) == value.k = "null"

-----------------------------------------------------------------------------
(* DynamicType and Fields: value conformance.                              *)

is_option(self) == self.tag = "Option"

count_options(hash_map) ==
    <<Cardinality(DOMAIN hash_map),
      Cardinality({f \in DOMAIN hash_map : is_option(hash_map[f])})>>

RECURSIVE deserialize(_, _, _)
\* A faulty arm: it does not look for fields the type does not define.
deserialize_object_open(c_type, hash_map, value, custom_types) ==
    IF ~as_object(value)
    THEN ErrAt("Deserialization error: Expected an object for custom type", c_type)
    ELSE
      LET obj_dynamic == value.o
          len == count_options(hash_map)[1]
          options == count_options(hash_map)[2]
          n == Cardinality(DOMAIN obj_dynamic)
          order == KeyOrder(DOMAIN hash_map)
          fieldErr(type_field) ==
              IF type_field \in DOMAIN obj_dynamic
              THEN deserialize(hash_map[type_field], obj_dynamic[type_field], custom_types)
              ELSE IF ~is_option(hash_map[type_field])
              THEN ErrAt("Deserialization error: Missing required field", type_field)
              ELSE Ok
      IN IF n < len - options \/ n > len
         THEN ErrAt("Deserialization error: Field count mismatch for custom type", c_type)
         ELSE FirstError([i \in DOMAIN order |-> fieldErr(order[i])])

\* The Fields::Object arm of DynamicType::deserialize for Type(c_type).
deserialize_object(c_type, hash_map, value, custom_types) ==
    IF ~as_object(value)
    THEN ErrAt("Deserialization error: Expected an object for custom type", c_type)
    ELSE
      LET obj_dynamic == value.o
          len == count_options(hash_map)[1]
          options == count_options(hash_map)[2]
          n == Cardinality(DOMAIN obj_dynamic)
          order == KeyOrder(DOMAIN hash_map)
          fieldErr(type_field) ==
              IF type_field \in DOMAIN obj_dynamic
              THEN deserialize(hash_map[type_field], obj_dynamic[type_field], custom_types)
              ELSE IF ~is_option(hash_map[type_field])
              THEN ErrAt("Deserialization error: Missing required field", type_field)
              ELSE Ok
      IN IF n < len - options \/ n > len
         THEN ErrAt("Deserialization error: Field count mismatch for custom type", c_type)
         ELSE Try(FirstError([i \in DOMAIN order |-> fieldErr(order[i])]),
                  IF DOMAIN obj_dynamic \ DOMAIN hash_map # {}
                  THEN ErrAt("Deserialization error: Unexpected fields found in custom type", c_type)
                  ELSE Ok)

\* A faulty DynamicType::deserialize: a string that names any variant of an
\* Enum conforms to it, with or without payload.
deserialize_any_variant(self, value, custom_types) ==
    CASE self.tag = "String" ->
           IF as_str(value) THEN Ok ELSE Err("Deserialization error: Expected a String")
      [] self.tag = "u64" ->
           IF as_u64(value) THEN Ok ELSE Err("Deserialization error: Expected an unsigned 64-bit integer (u64)")
      [] self.tag = "f64" ->
           IF as_f64(value) THEN Ok ELSE Err("Deserialization error: Expected a 64-bit floating point number (f64)")
      [] self.tag = "i64" ->
           IF as_i64(value) THEN Ok ELSE Err("Deserialization error: Expected a signed 64-bit integer (i64)")
      [] self.tag = "bool" ->
           IF as_bool(value) THEN Ok ELSE Err("Deserialization error: Expected a boolean")
      [] self.tag = "Vec" ->
           IF ~as_array(value) THEN Err("Deserialization error: Expected an array")
           ELSE FirstError([i \in DOMAIN value.a |->
                              deserialize(self.elem, value.a[i], custom_types)])
      [] self.tag = "Enum" ->
           IF as_object(value)
           THEN IF Cardinality(DOMAIN value.o) # 1
                THEN Err("Deserialization error: Invalid enum object. Expected exactly one field")
                ELSE LET value_name == CHOOSE x \in DOMAIN value.o : TRUE
                     IN IF value_name \notin DOMAIN self.variants
                        THEN ErrAt("Deserialization error: Unknown enum variant", value_name)
                        ELSE deserialize(self.variants[value_name],
                                         value.o[value_name], custom_types)
           ELSE IF as_str(value)
           THEN IF value.s \in DOMAIN self.variants
                THEN Ok
                ELSE ErrAt("Deserialization error: Unknown enum variant", value.s)
           ELSE Err("Deserialization error: Cannot deserialize value as Enum")
      [] self.tag = "Type" ->
           IF self.name \notin DOMAIN custom_types
           THEN ErrAt("Deserialization error: Custom type is not defined in the schema", self.name)
           ELSE LET obj_type == custom_types[self.name]
                IN IF obj_type.tag = "Basic"
                   THEN deserialize(obj_type.t, value, custom_types)
                   ELSE deserialize_object(self.name, obj_type.fields, value, custom_types)
      [] self.tag = "Option" ->
           IF is_null(value) THEN Ok ELSE deserialize(self.elem, value, custom_types)
      [] self.tag = "Dummy" ->
           Err("Check error: Dummy type encountered during deserialization")

\* DynamicType::deserialize
deserialize(self, value, custom_types) ==
    CASE self.tag = "String" ->
           IF as_str(value) THEN Ok ELSE Err("Deserialization error: Expected a String")
      [] self.tag = "u64" ->
           IF as_u64(value) THEN Ok ELSE Err("Deserialization error: Expected an unsigned 64-bit integer (u64)")
      [] self.tag = "f64" ->
           IF as_f64(value) THEN Ok ELSE Err("Deserialization error: Expected a 64-bit floating point number (f64)")
      [] self.tag = "i64" ->
           IF as_i64(value) THEN Ok ELSE Err("Deserialization error: Expected a signed 64-bit integer (i64)")
      [] self.tag = "bool" ->
           IF as_bool(value) THEN Ok ELSE Err("Deserialization error: Expected a boolean")
      [] self.tag = "Vec" ->
           IF ~as_array(value) THEN Err("Deserialization error: Expected an array")
           ELSE FirstError([i \in DOMAIN value.a |->
                              deserialize(self.elem, value.a[i], custom_types)])
      [] self.tag = "Enum" ->
           IF as_object(value)
           THEN IF Cardinality(DOMAIN value.o) # 1
                THEN Err("Deserialization error: Invalid enum object. Expected exactly one field")
                ELSE LET value_name == CHOOSE x \in DOMAIN value.o : TRUE
                     IN IF value_name \notin DOMAIN self.variants
                        THEN ErrAt("Deserialization error: Unknown enum variant", value_name)
                        ELSE deserialize(self.variants[value_name],
                                         value.o[value_name], custom_types)
           ELSE IF as_str(value)
           THEN IF value.s \in DOMAIN self.variants /\ self.variants[value.s].tag = "Dummy"
                THEN Ok
                ELSE ErrAt("Deserialization error: Unknown enum variant", value.s)
           ELSE Err("Deserialization error: Cannot deserialize value as Enum")
      [] self.tag = "Type" ->
           IF self.name \notin DOMAIN custom_types
           THEN ErrAt("Deserialization error: Custom type is not defined in the schema", self.name)
           ELSE LET obj_type == custom_types[self.name]
                IN IF obj_type.tag = "Basic"
                   THEN deserialize(obj_type.t, value, custom_types)
                   ELSE deserialize_object(self.name, obj_type.fields, value, custom_types)
      [] self.tag = "Option" ->
           IF is_null(value) THEN Ok ELSE deserialize(self.elem, value, custom_types)
      [] self.tag = "Dummy" ->
           Err("Check error: Dummy type encountered during deserialization")

\* A faulty Fields::check_value: it does not miss a required field.
check_value_lenient(self, data, custom_types) ==
    IF self.tag = "Basic" THEN deserialize(self.t, data, custom_types)
    ELSE
      IF ~as_object(data)
      THEN Err("Check error: Type mismatch. Expected an object but received a different type")
      ELSE
        LET hash_map == self.fields
            data_object == data.o
            len == count_options(hash_map)[1]
            options == count_options(hash_map)[2]
            n == Cardinality(DOMAIN data_object)
            order == KeyOrder(DOMAIN hash_map)
            fieldErr(custom_type_name) ==
                IF custom_type_name \in DOMAIN data_object
                THEN deserialize(hash_map[custom_type_name],
                                 data_object[custom_type_name], custom_types)
                ELSE Ok
        IN IF n < len - options \/ n > len
           THEN Err("Check error: Field count mismatch")
           ELSE Try(FirstError([i \in DOMAIN order |-> fieldErr(order[i])]),
                    IF DOMAIN data_object \ DOMAIN hash_map # {}
                    THEN Err("Check error: Unexpected fields found")
                    ELSE Ok)

\* Fields::check_value
check_value(self, data, custom_types) ==
    IF self.tag = "Basic" THEN deserialize(self.t, data, custom_types)
    ELSE
      IF ~as_object(data)
      THEN Err("Check error: Type mismatch. Expected an object but received a different type")
      ELSE
        LET hash_map == self.fields
            data_object == data.o
            len == count_options(hash_map)[1]
            options == count_options(hash_map)[2]
            n == Cardinality(DOMAIN data_object)
            order == KeyOrder(DOMAIN hash_map)
            fieldErr(custom_type_name) ==
                IF custom_type_name \in DOMAIN data_object
                THEN deserialize(hash_map[custom_type_name],
                                 data_object[custom_type_name], custom_types)
                ELSE IF ~is_option(hash_map[custom_type_name])
                THEN ErrAt("Check error: Missing required field", custom_type_name)
                ELSE Ok
        IN IF n < len - options \/ n > len
           THEN Err("Check error: Field count mismatch")
           ELSE Try(FirstError([i \in DOMAIN order |-> fieldErr(order[i])]),
                    IF DOMAIN data_object \ DOMAIN hash_map # {}
                    THEN Err("Check error: Unexpected fields found")
                    ELSE Ok)

BuiltinTypeNames == {"String", "i64", "u64", "f64", "bool"}

\* The free function check_data(type_name, content, custom_types).
check_data(type_name, content, custom_types) ==
    IF type_name = ""
    THEN Err("Check error: Type name cannot be empty")
    ELSE IF type_name \in DOMAIN custom_types
    THEN check_value(custom_types[type_name], content, custom_types)
    ELSE IF type_name \in BuiltinTypeNames
    THEN deserialize([tag |-> type_name], content, custom_types)
    ELSE ErrAt("Check error: Unknown type name", type_name)

\* A faulty register_data: it does not compare the type names.
register_data_untyped(local_name, local_type_name, custom_types, name, type_name, content) ==
    IF local_name # name
    THEN ErrAt("Check error: Name mismatch", name)
    ELSE IF local_type_name \in DOMAIN custom_types
    THEN check_value(custom_types[local_type_name], content, custom_types)
    ELSE IF local_type_name \in BuiltinTypeNames
    THEN deserialize([tag |-> local_type_name], content, custom_types)
    ELSE ErrAt("Check error: Unknown type name", local_type_name)

\* The free function register_data(local_name, local_type_name, custom_types,
\* name, type_name, content).
register_data(local_name, local_type_name, custom_types, name, type_name, content) ==
    IF local_name # name
    THEN ErrAt("Check error: Name mismatch", name)
    ELSE IF local_type_name # type_name
    THEN ErrAt("Check error: Type mismatch", type_name)
    ELSE IF local_type_name \in DOMAIN custom_types
    THEN check_value(custom_types[local_type_name], content, custom_types)
    ELSE IF local_type_name \in BuiltinTypeNames
    THEN deserialize([tag |-> local_type_name], content, custom_types)
    ELSE ErrAt("Check error: Unknown type name", local_type_name)

-----------------------------------------------------------------------------
(* DynamicType and Fields: well-formedness of a type definition.  The      *)
(* checks thread internal_types, the list of the names referenced through  *)
(* Type; a result is [error, internal_types].  A loop carries the result   *)
(* of its latest iteration and ends on the first error.                    *)

RECURSIVE DynamicType_check_data(_, _, _)
RECURSIVE enum_check_loop(_, _, _, _)

\* A faulty enum_check_step: it does not reject a variant of type Option.
enum_check_step_option(type_field, type_dyn, custom_types, internal_types) ==
    IF type_field = ""
    THEN [error |-> Err("Check error: Enum variant name cannot be empty"),
          internal_types |-> internal_types]
    ELSE DynamicType_check_data(type_dyn, custom_types, internal_types)

\* The body of the loop over the variants of an Enum.
enum_check_step(type_field, type_dyn, custom_types, internal_types) ==
    IF type_field = ""
    THEN [error |-> Err("Check error: Enum variant name cannot be empty"),
          internal_types |-> internal_types]
    ELSE IF type_dyn.tag = "Option"
    THEN [error |-> ErrAt("Check error: Enum variant cannot be of type Option", type_field),
          internal_types |-> internal_types]
    ELSE DynamicType_check_data(type_dyn, custom_types, internal_types)

\* The loop over the variants of an Enum in DynamicType::check_data; order is
\* the iteration order, acc the result so far.
enum_check_loop(enum_type, order, custom_types, acc) ==
    IF acc.error # Ok \/ order = <<>> THEN acc
    ELSE enum_check_loop(enum_type, Tail(order), custom_types,
                         enum_check_step(Head(order), enum_type[Head(order)],
                                         custom_types, acc.internal_types))

\* A faulty DynamicType::check_data: it does not look a Type up.
DynamicType_check_data_unresolved(self, custom_types, internal_types) ==
    CASE self.tag \in {"Vec", "Option"} ->
           IF self.elem.tag \in {"Dummy", "Option"}
           THEN [error |-> Err("Check error: Invalid nested type"),
                 internal_types |-> internal_types]
           ELSE DynamicType_check_data(self.elem, custom_types, internal_types)
      [] self.tag = "Enum" ->
           enum_check_loop(self.variants, KeyOrder(DOMAIN self.variants), custom_types,
                           [error |-> Ok, internal_types |-> internal_types])
      [] self.tag = "Type" ->
           IF self.name = ""
           THEN [error |-> Err("Check error: Custom type name cannot be empty"),
                 internal_types |-> internal_types]
           ELSE [error |-> Ok, internal_types |-> Append(internal_types, self.name)]
      [] OTHER -> [error |-> Ok, internal_types |-> internal_types]

\* DynamicType::check_data
DynamicType_check_data(self, custom_types, internal_types) ==
    CASE self.tag \in {"Vec", "Option"} ->
           IF self.elem.tag \in {"Dummy", "Option"}
           THEN [error |-> Err("Check error: Invalid nested type"),
                 internal_types |-> internal_types]
           ELSE DynamicType_check_data(self.elem, custom_types, internal_types)
      [] self.tag = "Enum" ->
           enum_check_loop(self.variants, KeyOrder(DOMAIN self.variants), custom_types,
                           [error |-> Ok, internal_types |-> internal_types])
      [] self.tag = "Type" ->
           IF self.name = ""
           THEN [error |-> Err("Check error: Custom type name cannot be empty"),
                 internal_types |-> internal_types]
           ELSE IF self.name \notin DOMAIN custom_types
           THEN [error |-> ErrAt("Check error: Custom type is not defined", self.name),
                 internal_types |-> internal_types]
           ELSE [error |-> Ok, internal_types |-> Append(internal_types, self.name)]
      [] OTHER -> [error |-> Ok, internal_types |-> internal_types]

\* A faulty object_check_step: it does not reject a field of type Dummy.
object_check_step_dummy(field, c_type, custom_types, internal_types) ==
    IF field = ""
    THEN [error |-> Err("Check error: Field name cannot be empty"),
          internal_types |-> internal_types]
    ELSE DynamicType_check_data(c_type, custom_types, internal_types)

\* The body of the loop over the fields of an Object.
object_check_step(field, c_type, custom_types, internal_types) ==
    IF c_type.tag = "Dummy"
    THEN [error |-> ErrAt("Check error: Field has invalid type", field),
          internal_types |-> internal_types]
    ELSE IF field = ""
    THEN [error |-> Err("Check error: Field name cannot be empty"),
          internal_types |-> internal_types]
    ELSE DynamicType_check_data(c_type, custom_types, internal_types)

\* The loop over the fields of an Object in Fields::check_data.
RECURSIVE object_check_loop(_, _, _, _)
object_check_loop(hash_map, order, custom_types, acc) ==
    IF acc.error # Ok \/ order = <<>> THEN acc
    ELSE object_check_loop(hash_map, Tail(order), custom_types,
                           object_check_step(Head(order), hash_map[Head(order)],
                                             custom_types, acc.internal_types))

\* Fields::check_data
Fields_check_data(self, custom_types) ==
    IF self.tag = "Basic"
    THEN IF self.t.tag \in {"Dummy", "Option", "Type"}
         THEN [error |-> Err("Check error: Invalid basic type"), internal_types |-> <<>>]
         ELSE DynamicType_check_data(self.t, custom_types, <<>>)
    ELSE IF DOMAIN self.fields = {}
         THEN [error |-> Err("Check error: Object fields cannot be empty"),
               internal_types |-> <<>>]
         ELSE object_check_loop(self.fields, KeyOrder(DOMAIN self.fields), custom_types,
                                [error |-> Ok, internal_types |-> <<>>])

-----------------------------------------------------------------------------
(* Cycle detection.  has_cycle threads the two sets it mutates; a result   *)
(* is [found, visited, stack].                                             *)

\* A faulty return of has_cycle: it leaves the node on the stack.
has_cycle_return_on_stack(node, r) == r

\* The return of has_cycle once the loop over the neighbours has ended with
\* r: true if it found a cycle, else stack.remove(node) and false.
has_cycle_return(node, r) ==
    IF r.found THEN r
    ELSE [found |-> FALSE, visited |-> r.visited, stack |-> r.stack \ {node}]

RECURSIVE has_cycle(_, _, _, _)
RECURSIVE has_cycle_neighbors(_, _, _)

has_cycle(node, graph, visited, stack) ==
    IF node \in stack THEN [found |-> TRUE, visited |-> visited, stack |-> stack]
    ELSE IF node \in visited THEN [found |-> FALSE, visited |-> visited, stack |-> stack]
    ELSE has_cycle_return(node,
           has_cycle_neighbors(IF node \in DOMAIN graph THEN graph[node] ELSE <<>>, graph,
                               [found |-> FALSE, visited |-> visited \cup {node},
                                stack |-> stack \cup {node}]))

\* The loop over the neighbours of a node in has_cycle: it ends on the first
\* neighbour for which has_cycle returns true; acc is the result so far.
has_cycle_neighbors(neighbors, graph, acc) ==
    IF acc.found \/ neighbors = <<>> THEN acc
    ELSE has_cycle_neighbors(Tail(neighbors), graph,
                             has_cycle(Head(neighbors), graph, acc.visited, acc.stack))

\* The body of the loop of check_cycle on type_name, has_cycle having
\* returned r: [error, visited, stack].
check_cycle_step(type_name, r) ==
    [error |-> IF r.found
               THEN ErrAt("Check error: Circular dependency detected in type", type_name)
               ELSE Ok,
     visited |-> r.visited, stack |-> r.stack]

\* The loop over cycle_types.keys() in check_cycle; keys is the iteration order.
RECURSIVE check_cycle_loop(_, _, _)
check_cycle_loop(keys, cycle_types, acc) ==
    IF acc.error # Ok \/ keys = <<>> THEN acc
    ELSE check_cycle_loop(Tail(keys), cycle_types,
           IF Head(keys) \in acc.visited THEN acc
           ELSE check_cycle_step(Head(keys),
                                 has_cycle(Head(keys), cycle_types, acc.visited, acc.stack)))

\* A faulty check_cycle: it finds only a type that refers to itself directly.
check_cycle_direct(cycle_types) ==
    IF \E n \in DOMAIN cycle_types :
          \E i \in DOMAIN cycle_types[n] : cycle_types[n][i] = n
    THEN ErrAt("Check error: Circular dependency detected in type",
               CHOOSE n \in DOMAIN cycle_types :
                  \E i \in DOMAIN cycle_types[n] : cycle_types[n][i] = n)
    ELSE Ok

check_cycle(cycle_types) ==
    check_cycle_loop(KeyOrder(DOMAIN cycle_types), cycle_types,
                     [error |-> Ok, visited |-> {}, stack |-> {}]).error

-----------------------------------------------------------------------------
(* The operations on the document.  Each returns [state, error]: the       *)
(* document as the operation leaves it (it edits the caller's document in  *)
(* place, also when it fails) and its Result.                              *)

Done(st) == [state |-> st, error |-> Ok]

Fail(st, e) == [state |-> st, error |-> e]

\* `e?; next` inside an operation on the document st.
Guard(st, e, next) == IF e # Ok THEN Fail(st, e) ELSE next

\* A faulty list of the reserved names: the five primitives only.
ReservedTypeNames_primitives == {"String", "bool", "i64", "f64", "u64"}

ReservedTypeNames ==
    {"String", "bool", "i64", "f64", "u64", "Dummy", "Option", "Enum", "Type", "Vec"}

\* for (name, fields) in types { temporal_types.insert(name, fields) }
RECURSIVE insert_all(_, _)
insert_all(temporal_types, types) ==
    IF types = <<>> THEN temporal_types
    ELSE insert_all(MapInsert(temporal_types, Head(types)[1], Head(types)[2]), Tail(types))

\* cycle_types.insert(name, internal_types), fields.check_data having
\* returned r: [error, cycle_types].
add_types_insert(name, r, cycle_types) ==
    IF r.error # Ok THEN [error |-> r.error, cycle_types |-> cycle_types]
    ELSE [error |-> Ok, cycle_types |-> MapInsert(cycle_types, name, r.internal_types)]

\* The body of the loop of add_types on the type name of the merged schema.
add_types_step(name, temporal_types, cycle_types) ==
    IF name = ""
    THEN [error |-> Err("Check error: Type name cannot be empty"),
          cycle_types |-> cycle_types]
    ELSE IF name \in ReservedTypeNames
    THEN [error |-> ErrAt("Check error: The type name is reserved", name),
          cycle_types |-> cycle_types]
    ELSE add_types_insert(name, Fields_check_data(temporal_types[name], temporal_types),
                          cycle_types)

\* The loop over temporal_types in add_types; keys is the iteration order,
\* acc the result so far.
RECURSIVE add_types_loop(_, _, _)
add_types_loop(keys, temporal_types, acc) ==
    IF acc.error # Ok \/ keys = <<>> THEN acc
    ELSE add_types_loop(Tail(keys), temporal_types,
                        add_types_step(Head(keys), temporal_types, acc.cycle_types))

\* The end of add_types, the loop having returned r: check_cycle(cycle_types)?
\* and state.custom_types = temporal_types.
add_types_commit(st, temporal_types, r) ==
    Guard(st, r.error,
          Guard(st, check_cycle(r.cycle_types),
                Done([st EXCEPT !.custom_types = temporal_types])))

\* add_types once temporal_types holds the merged schema.
add_types_merged(st, temporal_types) ==
    add_types_commit(st, temporal_types,
                     add_types_loop(KeyOrder(DOMAIN temporal_types), temporal_types,
                                    [error |-> Ok, cycle_types |-> EmptyMap]))

\* A faulty add_types: it validates the types of the batch only.
add_types_batch_only(st, types) ==
    IF types = <<>> THEN Fail(st, Err("Check error: Cannot add types"))
    ELSE add_types_commit(st, insert_all(st.custom_types, types),
                          add_types_loop(KeyOrder({types[i][1] : i \in DOMAIN types}),
                                         insert_all(st.custom_types, types),
                                         [error |-> Ok, cycle_types |-> EmptyMap]))

add_types(st, types) ==
    IF types = <<>> THEN Fail(st, Err("Check error: Cannot add types"))
    ELSE add_types_merged(st, insert_all(st.custom_types, types))

\* Properties::check_data
Properties_check_data(self, custom_types) ==
    IF self.name = ""
    THEN Err("Check error: Property name cannot be empty")
    ELSE check_data(self.type_name, self.content, custom_types)

\* A faulty Data::check_data: it does not look at the name.
Data_check_data_unnamed(self, custom_types) ==
    IF IsSome(self.targets)
    THEN ErrAt("Check error: Targets must not be set in unit process definition", self.name)
    ELSE Try(IF IsSome(self.metadata)
             THEN check_data(Unwrap(self.metadata).type_name,
                             Unwrap(self.metadata).content, custom_types)
             ELSE Ok,
             check_data(self.type_name, self.content, custom_types))

\* A faulty Data::check_data: it does not look at the metadata.
Data_check_data_no_metadata(self, custom_types) ==
    IF IsSome(self.targets)
    THEN ErrAt("Check error: Targets must not be set in unit process definition", self.name)
    ELSE IF self.name = ""
    THEN Err("Check error: Data element name cannot be empty")
    ELSE check_data(self.type_name, self.content, custom_types)

\* Data::check_data
Data_check_data(self, custom_types) ==
    IF IsSome(self.targets)
    THEN ErrAt("Check error: Targets must not be set in unit process definition", self.name)
    ELSE IF self.name = ""
    THEN Err("Check error: Data element name cannot be empty")
    ELSE Try(IF IsSome(self.metadata)
             THEN check_data(Unwrap(self.metadata).type_name,
                             Unwrap(self.metadata).content, custom_types)
             ELSE Ok,
             check_data(self.type_name, self.content, custom_types))

\* for x in list { x.check_data(custom_types)? } over inputs or outputs.
Data_check_all(list, custom_types) ==
    FirstError([i \in DOMAIN list |-> Data_check_data(list[i], custom_types)])

Names(list) == [i \in DOMAIN list |-> list[i].name]

\* UnitProcess::check_data
UnitProcess_check_data(self, custom_types) ==
    LET names == Names(self.inputs) \o Names(self.outputs)
        properties_name == Names(self.properties)
    IN IF self.name = ""
       THEN Err("Check error: Unit process name cannot be empty")
       ELSE
         Try(Data_check_all(self.inputs, custom_types),
         Try(Data_check_all(self.outputs, custom_types),
             IF HashSetLen(names) # Len(self.outputs) + Len(self.inputs)
             THEN ErrAt("Check error: Duplicate names detected in unit process", self.name)
             ELSE
               Try(FirstError([i \in DOMAIN self.properties |->
                                 Properties_check_data(self.properties[i], custom_types)]),
                   IF HashSetLen(names) # Len(self.outputs) + Len(self.inputs)
                   THEN ErrAt("Check error: Duplicate names detected in unit process", self.name)
                   ELSE IF HashSetLen(properties_name) # Len(self.properties)
                   THEN ErrAt("Check error: Duplicate property names detected in unit process",
                              self.name)
                   ELSE Ok)))

\* The push loop of add_unit_process: a unit process that fails its check
\* ends the loop; those before it stay pushed.
RECURSIVE add_unit_process_loop(_, _)
add_unit_process_loop(st, add) ==
    IF add = <<>> THEN Done(st)
    ELSE Guard(st, UnitProcess_check_data(Head(add), st.custom_types),
               add_unit_process_loop(
                 [st EXCEPT !.unit_process = Append(st.unit_process, Head(add))], Tail(add)))

\* The end of add_unit_process, the push loop having returned r: the check
\* of the names of the whole list.
unit_names_unique(r) ==
    IF r.error # Ok THEN r
    ELSE IF HashSetLen(Names(r.state.unit_process)) # Len(r.state.unit_process)
    THEN Fail(r.state, Err("Check error: Duplicate unit process names detected"))
    ELSE r

add_unit_process(st, add) ==
    IF add = <<>> THEN Fail(st, Err("Check error: Cannot add unit processes"))
    ELSE unit_names_unique(add_unit_process_loop(st, add))

\* The push loop of add_new_properties.
RECURSIVE add_new_properties_loop(_, _)
add_new_properties_loop(st, properties) ==
    IF properties = <<>> THEN Done(st)
    ELSE Guard(st, Properties_check_data(Head(properties), st.custom_types),
               add_new_properties_loop(
                 [st EXCEPT !.properties = Append(st.properties, Head(properties))],
                 Tail(properties)))

\* The end of add_new_properties, the push loop having returned r: the
\* check of the names of the whole list.
properties_names_unique(r) ==
    IF r.error # Ok THEN r
    ELSE IF HashSetLen(Names(r.state.properties)) # Len(r.state.properties)
    THEN Fail(r.state, Err("Check error: Duplicate property names detected"))
    ELSE r

add_new_properties(st, properties) ==
    IF properties = <<>> THEN Fail(st, Err("Check error: Cannot add properties"))
    ELSE properties_names_unique(add_new_properties_loop(st, properties))

-----------------------------------------------------------------------------
(* Registration of data.  The loops of UnitProcess::register_data edit the *)
(* slots of the unit process in place: a result is [slots, updates, error] *)
(* for a list of slots and [unit_process, error] for the unit process.     *)

\* impl From<RegisterData> for Data
Data_from(value) ==
    [name |-> value.name, type_name |-> value.type_name, metadata |-> None,
     content |-> value.content, targets |-> value.targets]

TargetHasEmptyField(t) ==
    t.governance_id = "" \/ t.subject_id = "" \/ t.unit_process = ""

\* A faulty end of Data::register_data: it writes the whole slot, `*self =
\* data`, instead of its content and targets.
Data_register_end_whole(self, data, e) ==
    IF e # Ok THEN [slot |-> self, error |-> e]
    ELSE IF IsSome(self.targets)
            /\ \E i \in DOMAIN Unwrap(self.targets) :
                  TargetHasEmptyField(Unwrap(self.targets)[i])
    THEN [slot |-> self,
          error |-> ErrAt("Check error: Invalid target configuration for data element",
                          self.name)]
    ELSE [slot |-> data, error |-> Ok]

\* The rest of Data::register_data, the free function register_data having
\* returned e: the check of the targets the slot holds, then the two writes.
Data_register_end(self, data, e) ==
    IF e # Ok THEN [slot |-> self, error |-> e]
    ELSE IF IsSome(self.targets)
            /\ \E i \in DOMAIN Unwrap(self.targets) :
                  TargetHasEmptyField(Unwrap(self.targets)[i])
    THEN [slot |-> self,
          error |-> ErrAt("Check error: Invalid target configuration for data element",
                          self.name)]
    ELSE [slot |-> [self EXCEPT !.content = data.content, !.targets = data.targets],
          error |-> Ok]

\* Data::register_data: the slot as the call leaves it, and the error.
Data_register_data(self, data, custom_types) ==
    Data_register_end(self, data,
                      register_data(self.name, self.type_name, custom_types,
                                    data.name, data.type_name, data.content))

\* The rest of Properties::register_data, register_data having returned e.
Properties_register_end(self, data, e) ==
    IF e # Ok THEN [slot |-> self, error |-> e]
    ELSE [slot |-> [self EXCEPT !.content = data.content], error |-> Ok]

\* Properties::register_data: the slot as the call leaves it, and the error.
Properties_register_data(self, data, custom_types) ==
    Properties_register_end(self, data,
                            register_data(self.name, self.type_name, custom_types,
                                          data.name, data.type_name, data.content))

\* `element_state.register_data(..)?; updates += 1` on slot i, the call
\* having returned r; acc is [slots, updates, error].
register_step(acc, i, r) ==
    IF r.error # Ok THEN [acc EXCEPT !.error = r.error]
    ELSE [slots |-> [acc.slots EXCEPT ![i] = r.slot],
          updates |-> acc.updates + 1, error |-> Ok]

\* The nested loops over the slots of the unit process (outer, index i) and
\* the entries supplied (inner, index j), for inputs and outputs; acc is the
\* result so far and the loops end on the first error.
RECURSIVE register_data_loop(_, _, _, _, _)
register_data_loop(acc, incoming, i, j, custom_types) ==
    IF acc.error # Ok \/ i > Len(acc.slots) THEN acc
    ELSE IF j > Len(incoming)
    THEN register_data_loop(acc, incoming, i + 1, 1, custom_types)
    ELSE register_data_loop(
           IF acc.slots[i].name = incoming[j].name
           THEN register_step(acc, i,
                              Data_register_data(acc.slots[i], Data_from(incoming[j]),
                                                 custom_types))
           ELSE acc,
           incoming, i, j + 1, custom_types)

\* The same loops for the properties of the unit process.
RECURSIVE register_properties_loop(_, _, _, _, _)
register_properties_loop(acc, incoming, i, j, custom_types) ==
    IF acc.error # Ok \/ i > Len(acc.slots) THEN acc
    ELSE IF j > Len(incoming)
    THEN register_properties_loop(acc, incoming, i + 1, 1, custom_types)
    ELSE register_properties_loop(
           IF acc.slots[i].name = incoming[j].name
           THEN register_step(acc, i,
                              Properties_register_data(acc.slots[i], incoming[j],
                                                       custom_types))
           ELSE acc,
           incoming, i, j + 1, custom_types)

\* The loops start with no update.
NoUpdates(slots) == [slots |-> slots, updates |-> 0, error |-> Ok]

\* The end of one block of UnitProcess::register_data, its loops having
\* returned r for the list `field`: the slots are written, then
\* `if updates != len { return Err }`.
register_block_end(self, field, r, len, msg) ==
    [unit_process |-> [self EXCEPT ![field] = r.slots],
     error |-> IF r.error # Ok THEN r.error
               ELSE IF r.updates # len THEN ErrAt(msg, self.name)
               ELSE Ok]

\* The block `if let Some(inputs) = unit.inputs` of UnitProcess::register_data.
register_inputs(self, unit, custom_types) ==
    IF unit.inputs = None THEN [unit_process |-> self, error |-> Ok]
    ELSE IF Unwrap(unit.inputs) = <<>>
    THEN [unit_process |-> self,
          error |-> ErrAt("Check error: Empty inputs array for unit", unit.name)]
    ELSE register_block_end(self, "inputs",
           register_data_loop(NoUpdates(self.inputs), Unwrap(unit.inputs), 1, 1, custom_types),
           Len(Unwrap(unit.inputs)),
           "Check error: Failed to update input(s) in unit process")

\* The block `if let Some(outputs) = unit.outputs`, the blocks before it
\* having returned r: [unit_process, error].
register_outputs(r, unit, custom_types) ==
    IF r.error # Ok \/ unit.outputs = None THEN r
    ELSE IF Unwrap(unit.outputs) = <<>>
    THEN [unit_process |-> r.unit_process,
          error |-> ErrAt("Check error: Empty outputs array for unit", unit.name)]
    ELSE register_block_end(r.unit_process, "outputs",
           register_data_loop(NoUpdates(r.unit_process.outputs), Unwrap(unit.outputs),
                              1, 1, custom_types),
           Len(Unwrap(unit.outputs)),
           "Check error: Failed to update output(s) in unit process")

\* The block `if let Some(properties) = unit.properties`, the blocks before
\* it having returned r.
register_properties(r, unit, custom_types) ==
    IF r.error # Ok \/ unit.properties = None THEN r
    ELSE IF Unwrap(unit.properties) = <<>>
    THEN [unit_process |-> r.unit_process,
          error |-> ErrAt("Check error: Empty properties array for unit", unit.name)]
    ELSE register_block_end(r.unit_process, "properties",
           register_properties_loop(NoUpdates(r.unit_process.properties),
                                    Unwrap(unit.properties), 1, 1, custom_types),
           Len(Unwrap(unit.properties)),
           "Check error: Failed to update propert(y/ies) in unit process")

\* A faulty UnitProcess::register_data: it does not require inputs or
\* outputs.
UnitProcess_register_data_unguarded(self, unit, custom_types) ==
    register_properties(
      register_outputs(register_inputs(self, unit, custom_types), unit, custom_types),
      unit, custom_types)

\* UnitProcess::register_data
UnitProcess_register_data(self, unit, custom_types) ==
    IF unit.inputs = None /\ unit.outputs = None
    THEN [unit_process |-> self,
          error |-> ErrAt("Check error: Cannot register data for unit", unit.name)]
    ELSE register_properties(
           register_outputs(register_inputs(self, unit, custom_types), unit, custom_types),
           unit, custom_types)

-----------------------------------------------------------------------------
(* contract_logic.  An event is a record tagged by kind; the parameters of *)
(* each variant are the fields of ChangeProductionSystem / Events.         *)

\* iter().position(|x| x.name == name): the first index, 0 if there is none.
Position(list, name) ==
    IF \E i \in DOMAIN list : list[i].name = name
    THEN CHOOSE i \in DOMAIN list :
           /\ list[i].name = name
           /\ \A j \in DOMAIN list : list[j].name = name => i <= j
    ELSE 0

\* Vec::remove(pos)
RemoveAt(list, pos) ==
    [i \in 1..(Len(list) - 1) |-> IF i < pos THEN list[i] ELSE list[i + 1]]

\* The delete loops of ModifyProductionSystem (field = "properties") and of
\* ModifyUnitProcess (field = "unit_process").
RECURSIVE delete_loop(_, _, _, _)
delete_loop(st, field, names, msg) ==
    IF names = <<>> THEN Done(st)
    ELSE IF Position(st[field], Head(names)) = 0
    THEN Fail(st, ErrAt(msg, Head(names)))
    ELSE delete_loop([st EXCEPT ![field] = RemoveAt(@, Position(@, Head(names)))],
                     field, Tail(names), msg)

\* A faulty replacement: the entry is removed and the replacement pushed.
Replace_at_end(list, name, replacement) ==
    Append(RemoveAt(list, Position(list, name)), replacement)

\* *existing = replacement, for the first entry of the list named name.
Replace(list, name, replacement) ==
    [list EXCEPT ![Position(list, name)] = replacement]

\* The modify_properties loop of ModifyProductionSystem.
RECURSIVE modify_properties_loop(_, _)
modify_properties_loop(st, modify_properties) ==
    IF modify_properties = <<>> THEN Done(st)
    ELSE
      LET name == Head(modify_properties)[1]
          propiertie == Head(modify_properties)[2]
      IN Guard(st, Properties_check_data(propiertie, st.custom_types),
               IF Position(st.properties, name) = 0
               THEN Fail(st, ErrAt("ModifyProductionSystem error: Cannot modify property",
                                   name))
               ELSE modify_properties_loop(
                      [st EXCEPT !.properties = Replace(@, name, propiertie)],
                      Tail(modify_properties)))

\* The modify loop of ModifyUnitProcess.
RECURSIVE modify_unit_process_loop(_, _)
modify_unit_process_loop(st, modify) ==
    IF modify = <<>> THEN Done(st)
    ELSE
      LET name == Head(modify)[1]
          process == Head(modify)[2]
      IN Guard(st, UnitProcess_check_data(process, st.custom_types),
               IF Position(st.unit_process, name) = 0
               THEN Fail(st, ErrAt("ModifyUnitProcess error: Cannot modify unit process",
                                   name))
               ELSE modify_unit_process_loop(
                      [st EXCEPT !.unit_process = Replace(@, name, process)],
                      Tail(modify)))

RECURSIVE delete_types_loop(_, _)

\* A faulty delete loop: it refuses to delete a type another type refers to.
delete_types_loop_unreferenced(st, delete) ==
    IF delete = <<>> THEN Done(st)
    ELSE IF Head(delete) \notin DOMAIN st.custom_types
    THEN Fail(st, ErrAt("ModifyTypes error: Cannot delete type", Head(delete)))
    ELSE IF \E n \in DOMAIN st.custom_types \ {Head(delete)} :
               st.custom_types[n].tag = "Object"
               /\ \E f \in DOMAIN st.custom_types[n].fields :
                     st.custom_types[n].fields[f] = [tag |-> "Type", name |-> Head(delete)]
    THEN Fail(st, ErrAt("ModifyTypes error: Cannot delete type", Head(delete)))
    ELSE delete_types_loop(
           [st EXCEPT !.custom_types = MapRemove(@, Head(delete))], Tail(delete))

\* The delete loop of ModifyTypes.
delete_types_loop(st, delete) ==
    IF delete = <<>> THEN Done(st)
    ELSE IF Head(delete) \notin DOMAIN st.custom_types
    THEN Fail(st, ErrAt("ModifyTypes error: Cannot delete type", Head(delete)))
    ELSE delete_types_loop(
           [st EXCEPT !.custom_types = MapRemove(@, Head(delete))], Tail(delete))

\* The write of an entry of a RegisterData event: the unit process at pos
\* is left as its register_data, which returned r, left it.
register_event_write(st, pos, r) ==
    [state |-> [st EXCEPT !.unit_process[pos] = r.unit_process], error |-> r.error]

\* The body of the loop over the entries of a RegisterData event: the first
\* unit process named d.name registers d.
register_event_step(st, d) ==
    IF Position(st.unit_process, d.name) = 0
    THEN Fail(st, ErrAt("RegisterData error: No unit process found with name", d.name))
    ELSE register_event_write(st, Position(st.unit_process, d.name),
           UnitProcess_register_data(st.unit_process[Position(st.unit_process, d.name)],
                                     d, st.custom_types))

\* The loop over the entries of a RegisterData event; acc is the result so
\* far and the loop ends on the first error.
RECURSIVE register_event_loop(_, _)
register_event_loop(acc, data) ==
    IF acc.error # Ok \/ data = <<>> THEN acc
    ELSE register_event_loop(register_event_step(acc.state, Head(data)), Tail(data))

\* The steps of the match arm of ChangeProductionSystem::Init.  Each takes
\* the result r of the steps before it and is skipped once one has failed.
Init_name(st, ev) ==
    IF ev.name = ""
    THEN Fail(st, Err("Init error: Production system name cannot be empty"))
    ELSE Done([st EXCEPT !.name = ev.name])

Init_types(r, ev) ==
    IF r.error # Ok \/ ev.types = None THEN r
    ELSE add_types(r.state, Unwrap(ev.types))

Init_unit_process(r, ev) ==
    IF r.error # Ok \/ ev.unit_process = None THEN r
    ELSE add_unit_process(r.state, Unwrap(ev.unit_process))

Init_properties(r, ev) ==
    IF r.error # Ok \/ ev.properties = None THEN r
    ELSE add_new_properties(r.state, Unwrap(ev.properties))

\* A faulty arm: the unit processes and the properties come before the types.
InitArm_types_last(st, ev) ==
    Init_types(Init_properties(Init_unit_process(Init_name(st, ev), ev), ev), ev)

\* The match arm of ChangeProductionSystem::Init.
InitArm(st, ev) ==
    Init_properties(Init_unit_process(Init_types(Init_name(st, ev), ev), ev), ev)

\* The steps of the match arm of ChangeProductionSystem::ModifyProductionSystem.
ModifyProductionSystem_name(st, ev) ==
    IF ev.name = None /\ ev.delete_properties = None
       /\ ev.add_properties = None /\ ev.modify_properties = None
    THEN Fail(st, Err("ModifyProductionSystem error: At least one parameter must be provided"))
    ELSE IF ev.name = None THEN Done(st)
    ELSE IF Unwrap(ev.name) = ""
    THEN Fail(st, Err("ModifyProductionSystem error: New production system name cannot be empty"))
    ELSE Done([st EXCEPT !.name = Unwrap(ev.name)])

ModifyProductionSystem_delete(r, ev) ==
    IF r.error # Ok \/ ev.delete_properties = None THEN r
    ELSE IF Unwrap(ev.delete_properties) = <<>>
    THEN Fail(r.state, Err("ModifyProductionSystem error: The 'delete_properties' list cannot be empty"))
    ELSE delete_loop(r.state, "properties", Unwrap(ev.delete_properties),
                     "ModifyProductionSystem error: Cannot delete property")

ModifyProductionSystem_modify(r, ev) ==
    IF r.error # Ok \/ ev.modify_properties = None THEN r
    ELSE IF Unwrap(ev.modify_properties) = <<>>
    THEN Fail(r.state, Err("ModifyProductionSystem error: The 'modify_properties' list cannot be empty"))
    ELSE modify_properties_loop(r.state, Unwrap(ev.modify_properties))

ModifyProductionSystem_add(r, ev) ==
    IF r.error # Ok \/ ev.add_properties = None THEN r
    ELSE add_new_properties(r.state, Unwrap(ev.add_properties))

\* The match arm of ChangeProductionSystem::ModifyProductionSystem.
ModifyProductionSystemArm(st, ev) ==
    ModifyProductionSystem_add(
      ModifyProductionSystem_modify(
        ModifyProductionSystem_delete(ModifyProductionSystem_name(st, ev), ev), ev), ev)

\* The steps of the match arm of ChangeProductionSystem::ModifyTypes.
ModifyTypes_delete(st, ev) ==
    IF ev.delete = None /\ ev.add = None
    THEN Fail(st, Err("ModifyTypes error: At least one parameter must be provided"))
    ELSE IF ev.delete = None THEN Done(st)
    ELSE delete_types_loop(st, Unwrap(ev.delete))

ModifyTypes_add(r, ev) ==
    IF r.error # Ok \/ ev.add = None THEN r
    ELSE add_types(r.state, Unwrap(ev.add))

\* The match arm of ChangeProductionSystem::ModifyTypes.
ModifyTypesArm(st, ev) == ModifyTypes_add(ModifyTypes_delete(st, ev), ev)

\* The steps of the match arm of ChangeProductionSystem::ModifyUnitProcess.
ModifyUnitProcess_delete(st, ev) ==
    IF ev.delete = None /\ ev.add = None /\ ev.modify = None
    THEN Fail(st, Err("ModifyUnitProcess error: At least one parameter must be provided"))
    ELSE IF ev.delete = None THEN Done(st)
    ELSE IF Unwrap(ev.delete) = <<>>
    THEN Fail(st, Err("ModifyUnitProcess error: The 'delete' list cannot be empty"))
    ELSE delete_loop(st, "unit_process", Unwrap(ev.delete),
                     "ModifyUnitProcess error: Cannot delete unit process")

ModifyUnitProcess_modify(r, ev) ==
    IF r.error # Ok \/ ev.modify = None THEN r
    ELSE IF Unwrap(ev.modify) = <<>>
    THEN Fail(r.state, Err("ModifyUnitProcess error: The 'modify' list cannot be empty"))
    ELSE modify_unit_process_loop(r.state, Unwrap(ev.modify))

ModifyUnitProcess_add(r, ev) ==
    IF r.error # Ok \/ ev.add = None THEN r
    ELSE add_unit_process(r.state, Unwrap(ev.add))

\* The match arm of ChangeProductionSystem::ModifyUnitProcess.
ModifyUnitProcessArm(st, ev) ==
    ModifyUnitProcess_add(ModifyUnitProcess_modify(ModifyUnitProcess_delete(st, ev), ev), ev)

\* The match arm of Events::RegisterData.
RegisterDataArm(st, ev) ==
    IF st.version = 0
    THEN Fail(st, Err("RegisterData error: Cannot register data before initialization"))
    ELSE IF ev.data = <<>>
    THEN Fail(st, Err("RegisterData error: The data list cannot be empty"))
    ELSE register_event_loop(Done(st), ev.data)

StructuralKinds == {"Init", "ModifyProductionSystem", "ModifyTypes", "ModifyUnitProcess"}

\* A faulty increment: only an Init event increments version.
BumpVersion_init_only(st, ev) ==
    IF ev.kind = "Init" THEN [st EXCEPT !.version = @ + 1] ELSE st

\* if let Events::ChangeProductionSystem(..) = context.event { state.version += 1 }
BumpVersion(st, ev) ==
    IF ev.kind \in StructuralKinds THEN [st EXCEPT !.version = @ + 1] ELSE st

\* match context.event.clone() { .. }
MatchEvent(st, ev) ==
    CASE ev.kind = "Init" -> InitArm(st, ev)
      [] ev.kind = "ModifyProductionSystem" -> ModifyProductionSystemArm(st, ev)
      [] ev.kind = "ModifyTypes" -> ModifyTypesArm(st, ev)
      [] ev.kind = "ModifyUnitProcess" -> ModifyUnitProcessArm(st, ev)
      [] ev.kind = "RegisterData" -> RegisterDataArm(st, ev)

\* A faulty return: success is set before the arm runs and stays set when
\* the arm fails.
Returned_early_success(r) == [state |-> r.state, success |-> TRUE, error |-> r.error]

\* The fields of the ContractResult on return, the arm having returned r:
\* an arm that fails sets error and returns, one that ends reaches
\* contract_result.success = true.
Returned(r) == [state |-> r.state, success |-> r.error = Ok, error |-> r.error]

\* A faulty ordering check: an Init event passes whatever the version.
OrderingCheck_first_only(st, ev) ==
    IF ev.kind # "Init" /\ st.version = 0
    THEN Err("Contract error: The first event must be an Init event")
    ELSE Ok

\* The ordering check that opens contract_logic: the error it returns with,
\* Ok if the event passes.
OrderingCheck(st, ev) ==
    IF ev.kind = "Init"
    THEN IF st.version # 0
         THEN Err("Contract error: Cannot emit Init event when version is not 0")
         ELSE Ok
    ELSE IF st.version = 0
         THEN Err("Contract error: The first event must be an Init event")
         ELSE Ok

\* contract_logic applied to a fresh ContractResult (success false, error
\* empty) holding the document st: the fields of the result on return.
contract_logic(st, ev) ==
    IF OrderingCheck(st, ev) # Ok
    THEN [state |-> st, success |-> FALSE, error |-> OrderingCheck(st, ev)]
    ELSE Returned(MatchEvent(BumpVersion(st, ev), ev))

-----------------------------------------------------------------------------
(* The events the model draws.                                             *)

\* The greatest version a document of the model reaches: a call that would
\* increment version beyond it is not taken.  version is a u32 the code
\* increments unchecked; the model stays below the value where it overflows.
MaxVersion == 2

\* Lists of at most two entries over a set of entries.
Lists(S) == {<<>>} \cup {<<a>> : a \in S} \cup {<<a, b>> : a \in S, b \in S}

\* Lists of at most one entry.
Singles(S) == {<<>>} \cup {<<a>> : a \in S}

\* An optional list parameter: absent, or one of the lists.
Opt(L) == {None} \cup {Some(l) : l \in L}

\* Of the optional lists ps, one that is present and empty comes alone.
EmptyAlone(ps) ==
    \A i \in DOMAIN ps : ps[i] = Some(<<>>) => \A j \in DOMAIN ps \ {i} : ps[j] = None

\* The number of entries of an optional list parameter.
Size(o) == IF o = None THEN 0 ELSE Len(Unwrap(o))

VStr(s) == [k |-> "str", s |-> s]

VNum == [k |-> "num", repr |-> "PosInt", above_i64 |-> FALSE]

TString == [tag |-> "String"]

TType(name) == [tag |-> "Type", name |-> name]

Basic(t) == [tag |-> "Basic", t |-> t]

Object(fields) == [tag |-> "Object", fields |-> fields]

TypeNames == {"A", "B"}

\* A String, or a record with one field r that refers to A or to B.
FieldsChoices ==
    {Basic(TString)} \cup {Object([f \in {"r"} |-> TType(n)]) : n \in TypeNames}

TypePairs == {<<n, f>> : n \in TypeNames, f \in FieldsChoices}

TypeBatches == Lists(TypePairs)

NewData(name, type_name, content) ==
    [name |-> name, type_name |-> type_name, metadata |-> None,
     content |-> content, targets |-> None]

NewProperty(name, type_name, content) ==
    [name |-> name, type_name |-> type_name, content |-> content]

NewUnit(name, inputs, outputs, properties) ==
    [name |-> name, inputs |-> inputs, outputs |-> outputs, properties |-> properties]

UnitNames == {"u", "v"}

\* Unit processes: a well-formed one under each name (its property shares
\* its name with its input), one whose input has the custom type A, one
\* whose input and output share a name, one with two properties of the same
\* name.
UnitChoices ==
    {NewUnit(n, <<NewData("d", "String", VStr("x"))>>,
                <<NewData("e", "String", VStr("x"))>>,
                <<NewProperty("d", "String", VStr("x"))>>) : n \in UnitNames}
    \cup
    {NewUnit("u", <<NewData("d", "A", VStr("x"))>>, <<>>, <<>>),
     NewUnit("v", <<NewData("d", "String", VStr("x"))>>,
                  <<NewData("d", "String", VStr("x"))>>, <<>>),
     NewUnit("v", <<>>, <<>>, <<NewProperty("p", "String", VStr("x")),
                                NewProperty("p", "String", VStr("x"))>>)}

PropertyNames == {"p", "q"}

\* Top-level properties: a well-formed String under each name, one of the
\* custom type A, one whose content does not conform.
PropertyChoices ==
    {NewProperty(n, "String", VStr("x")) : n \in PropertyNames}
    \cup {NewProperty("p", "A", VStr("x")), NewProperty("q", "String", VNum)}

GoodTarget == [governance_id |-> "g", subject_id |-> "s", unit_process |-> "t"]

NewRegisterData(name, type_name, content, targets) ==
    [name |-> name, type_name |-> type_name, content |-> content, targets |-> targets]

NewUnitData(name, inputs, outputs, properties) ==
    [name |-> name, inputs |-> inputs, outputs |-> outputs, properties |-> properties]

\* Entries of a RegisterData event: new content for input d and property d
\* of u, new content and a target for output e of u, properties alone,
\* content that does not conform, a unit process that does not exist.
UnitDataChoices ==
    {NewUnitData("u", Some(<<NewRegisterData("d", "String", VStr("y"), None)>>), None,
                 Some(<<NewProperty("d", "String", VStr("y"))>>)),
     NewUnitData("u", None,
                 Some(<<NewRegisterData("e", "String", VStr("y"), Some(<<GoodTarget>>))>>), None),
     NewUnitData("u", None, None, Some(<<NewProperty("d", "String", VStr("y"))>>)),
     NewUnitData("u", Some(<<NewRegisterData("d", "String", VNum, None)>>), None, None),
     NewUnitData("w", Some(<<NewRegisterData("d", "String", VStr("y"), None)>>), None, None)}

InitEvents ==
    {ev \in [kind : {"Init"}, name : {"", "ps"},
             types : Opt(TypeBatches),
             unit_process : Opt(Lists(UnitChoices)),
             properties : Opt(Lists(PropertyChoices))] :
        /\ Size(ev.types) + Size(ev.unit_process) + Size(ev.properties) <= 2
        /\ EmptyAlone(<<ev.types, ev.unit_process, ev.properties>>)
        /\ ev.name = "" => ev.types = None /\ ev.unit_process = None /\ ev.properties = None}

\* Once version is not 0 an Init event is rejected before any of its
\* parameters is read (lines 870-874): the Init events without lists stand
\* for all of them there.
LateInitEvents ==
    {ev \in InitEvents :
        ev.types = None /\ ev.unit_process = None /\ ev.properties = None}

ModifyProductionSystemEvents ==
    {ev \in [kind : {"ModifyProductionSystem"},
             name : {None, Some(""), Some("ps2")},
             delete_properties : Opt(Lists(PropertyNames)),
             modify_properties : Opt(Singles(PropertyNames \X PropertyChoices)),
             add_properties : Opt(Lists(PropertyChoices))] :
        /\ Size(ev.name) + Size(ev.delete_properties) + Size(ev.modify_properties)
             + Size(ev.add_properties) <= 2
        /\ EmptyAlone(<<ev.delete_properties, ev.modify_properties, ev.add_properties>>)
        /\ ev.name = Some("") => Size(ev.delete_properties) + Size(ev.modify_properties)
                                   + Size(ev.add_properties) = 0}

ModifyTypesEvents ==
    {ev \in [kind : {"ModifyTypes"},
             delete : Opt(Lists(TypeNames)),
             add : Opt(TypeBatches)] :
        /\ Size(ev.delete) + Size(ev.add) <= 2
        /\ EmptyAlone(<<ev.delete, ev.add>>)}

ModifyUnitProcessEvents ==
    {ev \in [kind : {"ModifyUnitProcess"},
             delete : Opt(Lists(UnitNames)),
             modify : Opt(Singles(UnitNames \X UnitChoices)),
             add : Opt(Lists(UnitChoices))] :
        /\ Size(ev.delete) + Size(ev.modify) + Size(ev.add) <= 2
        /\ EmptyAlone(<<ev.delete, ev.modify, ev.add>>)}

\* A RegisterData event carries no entry, one entry, or an entry for unit
\* process u followed by another entry.
RegisterDataEvents ==
    [kind : {"RegisterData"},
     data : {l \in Lists(UnitDataChoices) :
                Len(l) = 2 => l[1].name = "u" /\ l[1].inputs # None /\ l[1].inputs # Some(<<>>)}]

-----------------------------------------------------------------------------
(* The state machine: every call of contract_logic starts from a fresh     *)
(* ContractResult holding the document the previous call left.             *)

Init ==
    /\ state = [name |-> "", custom_types |-> EmptyMap, version |-> 0,
                unit_process |-> <<>>, properties |-> <<>>]
    /\ success = FALSE
    /\ error = Ok
    /\ last = "none"
    /\ initialized = FALSE
    /\ work = [op |-> "idle", of |-> "none"]

\* The call increments version: it carries a ChangeProductionSystem event
\* that passes the ordering check.
Increments(ev) ==
    /\ ev.kind \in StructuralKinds
    /\ (ev.kind = "Init") = (state.version = 0)

\* The ContractResult after the call: the fields contract_logic returned.
SetResult(r) ==
    /\ state' = r.state
    /\ success' = r.success
    /\ error' = r.error

Call(ev) ==
    /\ Increments(ev) => state.version < MaxVersion
    /\ SetResult(contract_logic(state, ev))
    /\ last' = ev.kind
    /\ initialized' = (initialized \/ (ev.kind = "Init" /\ success'))
    /\ work' = work

InitEvent ==
    \E ev \in InitEvents : (state.version = 0 \/ ev \in LateInitEvents) /\ Call(ev)

ModifyProductionSystemEvent ==
    \E ev \in ModifyProductionSystemEvents : ev.kind = "ModifyProductionSystem" /\ Call(ev)

ModifyTypesEvent ==
    \E ev \in ModifyTypesEvents : ev.kind = "ModifyTypes" /\ Call(ev)

ModifyUnitProcessEvent ==
    \E ev \in ModifyUnitProcessEvents : ev.kind = "ModifyUnitProcess" /\ Call(ev)

RegisterDataEvent ==
    \E ev \in RegisterDataEvents : ev.kind = "RegisterData" /\ Call(ev)

Next ==
    \/ InitEvent
    \/ ModifyProductionSystemEvent
    \/ ModifyTypesEvent
    \/ ModifyUnitProcessEvent
    \/ RegisterDataEvent

Spec == Init /\ [][Next]_vars

-----------------------------------------------------------------------------
(* Notions the properties are stated with.                                 *)

\* The type names a DynamicType refers to through Type, at any depth.
RECURSIVE TypeRefs(_)
TypeRefs(t) ==
    CASE t.tag = "Type" -> {t.name}
      [] t.tag \in {"Vec", "Option"} -> TypeRefs(t.elem)
      [] t.tag = "Enum" -> UNION {TypeRefs(t.variants[v]) : v \in DOMAIN t.variants}
      [] OTHER -> {}

\* The type names a definition of the schema refers to.
FieldsRefs(fields) ==
    IF fields.tag = "Basic" THEN TypeRefs(fields.t)
    ELSE UNION {TypeRefs(fields.fields[f]) : f \in DOMAIN fields.fields}

\* The types of the schema one reference away from a type of the set from.
Successors(schema, from) ==
    UNION {FieldsRefs(schema[n]) : n \in from \cap DOMAIN schema} \cap DOMAIN schema

\* The types of the schema reachable from the set seen by following references.
RECURSIVE Closure(_, _)
Closure(schema, seen) ==
    IF Successors(schema, seen) \subseteq seen THEN seen
    ELSE Closure(schema, seen \cup Successors(schema, seen))

\* Some type of the schema reaches itself by one or more references.
HasReferenceCycle(schema) ==
    \E n \in DOMAIN schema : n \in Closure(schema, Successors(schema, {n}))

\* The names of the entries of a list are pairwise distinct.
DistinctNames(list) ==
    \A i, j \in DOMAIN list : i # j => list[i].name # list[j].name

\* The schema an event's added types are merged into: the prior schema less
\* the types the event deletes, plus the types it adds.
MergedSchema(schema, ev) ==
    IF ev.kind = "Init"
    THEN insert_all(schema, Unwrap(ev.types))
    ELSE insert_all([n \in DOMAIN schema \ (IF ev.delete = None THEN {}
                                             ELSE {Unwrap(ev.delete)[i] :
                                                     i \in DOMAIN Unwrap(ev.delete)})
                       |-> schema[n]],
                    Unwrap(ev.add))

\* The types the event adds, none if the parameter is absent.
AddedTypes(ev) == IF ev.kind = "Init" THEN ev.types ELSE ev.add

-----------------------------------------------------------------------------
(* Properties.                                                             *)

\* C1: a call that rejects its event (success false) leaves the document of
\* the result identical to the document it was given, in every field.
RejectedEventLeavesDocument ==
    [][~success' => state' = state]_vars

\* C2: every accepted Init, ModifyProductionSystem, ModifyTypes or
\* ModifyUnitProcess event leaves version equal to the prior version plus
\* exactly 1, and an accepted Init takes version from 0 to 1.
AcceptedStructuralEventIncrementsVersion ==
    [][/\ (success' /\ last' \in StructuralKinds) => state'.version = state.version + 1
       /\ (success' /\ last' = "Init") => (state.version = 0 /\ state'.version = 1)]_vars

\* C2 happens: a ModifyProductionSystem, ModifyTypes or ModifyUnitProcess
\* event has just been accepted on a document an accepted Init had produced.
AcceptedStructuralEventSeen ==
    /\ success
    /\ initialized
    /\ last \in StructuralKinds \ {"Init"}
    /\ state.version = 2

\* C3: whenever a ModifyProductionSystem, ModifyTypes, ModifyUnitProcess or
\* RegisterData event has just been accepted, some earlier call of the run
\* accepted an Init event.
InitializeFirst ==
    (success /\ last \in (StructuralKinds \ {"Init"}) \cup {"RegisterData"}) => initialized

\* C4: an Init event applied to a document whose version is not 0 is
\* rejected and leaves the document as it was; a version that is not 0 never
\* returns to 0; once an Init has been accepted no other Init is accepted.
InitializeOnce ==
    [][/\ (state.version # 0 /\ last' = "Init") => (~success' /\ state' = state)
       /\ state.version # 0 => state'.version # 0
       /\ (initialized /\ last' = "Init") => ~success']_vars

\* C4 happens: an Init event has just been rejected by the ordering check on
\* a document an accepted Init had produced.
LateInitRejected ==
    /\ last = "Init"
    /\ ~success
    /\ initialized
    /\ state.version # 0
    /\ error = Err("Contract error: Cannot emit Init event when version is not 0")

\* C5: an Init event applied to the uninitialized document and rejected
\* leaves version 0 and none of its name, types, unit processes or
\* properties in the document.
RejectedInitLeavesNothing ==
    [][(state.version = 0 /\ last' = "Init" /\ ~success') =>
          /\ state'.version = 0
          /\ state'.name = ""
          /\ state'.custom_types = EmptyMap
          /\ state'.unit_process = <<>>
          /\ state'.properties = <<>>]_vars

\* An event that passes the ordering check and whose added types make the
\* merged schema contain a reference cycle is rejected by the call, and the
\* schema of the result equals the prior schema.
CyclicBatchHandled(ev) ==
    (/\ OrderingCheck(state, ev) = Ok
     /\ IsSome(AddedTypes(ev))
     /\ HasReferenceCycle(MergedSchema(state.custom_types, ev))
     /\ Call(ev))
    => (~success' /\ state'.custom_types = state.custom_types)

\* C6: an Init or ModifyTypes event whose added types make the merged schema
\* contain a reference cycle is rejected, and the schema of the result
\* equals the prior schema.
CyclicBatchRejectedSchemaKept ==
    [][/\ last' = "Init" => \A ev \in InitEvents : CyclicBatchHandled(ev)
       /\ last' = "ModifyTypes" => \A ev \in ModifyTypesEvents : CyclicBatchHandled(ev)]_vars

\* C7: in every reachable document the graph of the references between the
\* types of the schema is acyclic.
SchemaAcyclic == ~HasReferenceCycle(state.custom_types)

\* C7 happens: a batch of types has just been rejected for a circular
\* dependency while the schema holds a type that refers to another.
CycleRejectedOnSchemaWithReferences ==
    /\ ~success
    /\ Len(error) = 2
    /\ error[1] = "Check error: Circular dependency detected in type"
    /\ \E n \in DOMAIN state.custom_types :
          FieldsRefs(state.custom_types[n]) \cap DOMAIN state.custom_types # {}

\* C8: an accepted Init or ModifyUnitProcess event applied to a document
\* whose unit processes have pairwise distinct names leaves a document whose
\* unit processes have pairwise distinct names.
UnitProcessNamesStayDistinct ==
    [][(/\ DistinctNames(state.unit_process)
        /\ success'
        /\ last' \in {"Init", "ModifyUnitProcess"})
       => DistinctNames(state'.unit_process)]_vars

\* C9: an accepted Init or ModifyProductionSystem event applied to a document
\* whose top-level properties have pairwise distinct names leaves a document
\* whose top-level properties have pairwise distinct names.
PropertyNamesStayDistinct ==
    [][(/\ DistinctNames(state.properties)
        /\ success'
        /\ last' \in {"Init", "ModifyProductionSystem"})
       => DistinctNames(state'.properties)]_vars

\* C10: in every reachable document, within each unit process the names of
\* the inputs and outputs taken together are pairwise distinct and the names
\* of its properties are pairwise distinct.
UnitProcessInnerNamesDistinct ==
    \A i \in DOMAIN state.unit_process :
       /\ DistinctNames(state.unit_process[i].inputs \o state.unit_process[i].outputs)
       /\ DistinctNames(state.unit_process[i].properties)

\* C10 happens: the document holds a unit process with an input, an output
\* and a property that shares its name with the input, and a unit process
\* has just been rejected for duplicate names.
InnerNamesChecked ==
    /\ ~success
    /\ Len(error) = 2
    /\ error[1] \in {"Check error: Duplicate names detected in unit process",
                     "Check error: Duplicate property names detected in unit process"}
    /\ \E i \in DOMAIN state.unit_process :
          /\ state.unit_process[i].inputs # <<>>
          /\ state.unit_process[i].outputs # <<>>
          /\ \E p \in DOMAIN state.unit_process[i].properties :
                state.unit_process[i].properties[p].name = state.unit_process[i].inputs[1].name

-----------------------------------------------------------------------------
(* Names.  The specification SpecNames draws events whose entities carry   *)
(* an empty name in each place a name occurs.                              *)

TDummy == [tag |-> "Dummy"]

TEnum(variants) == [tag |-> "Enum", variants |-> variants]

\* The events of the call contract_logic handles next: one of the events of
\* the kind.
Handle(events, kind) == \E ev \in events : ev.kind = kind /\ Call(ev)

\* Events with a name in every place one occurs, and with the empty name in
\* each place in turn.  types: a type under the empty name and under A, a
\* record and an enumeration with an empty and with a non-empty field or
\* variant name.  units: the unit process u with one input, one output and
\* one property, then with its own name, its input's, its output's and its
\* property's empty.  RegisterData addresses the input of u by its name d and
\* by the empty name.  A list parameter is absent or has one entry.
NameEvents ==
    LET types == {<<"", Basic(TString)>>, <<"A", Basic(TString)>>,
                  <<"A", Object([f \in {""} |-> TString])>>,
                  <<"A", Object([f \in {"f"} |-> TString])>>,
                  <<"B", Basic(TEnum([v \in {""} |-> TDummy]))>>,
                  <<"B", Basic(TEnum([v \in {"X"} |-> TDummy]))>>}
        units == {NewUnit(n[1], <<NewData(n[2], "String", VStr("x"))>>,
                                <<NewData(n[3], "String", VStr("x"))>>,
                                <<NewProperty(n[4], "String", VStr("x"))>>) :
                    n \in {<<"u", "d", "e", "p">>, <<"", "d", "e", "p">>, <<"u", "", "e", "p">>,
                           <<"u", "d", "", "p">>, <<"u", "d", "e", "">>}}
        properties == {NewProperty(n, "String", VStr("x")) : n \in {"p", ""}}
    IN [kind : {"Init"}, name : {"", "ps"},
        types : Opt(Singles(types) \ {<<>>}),
        unit_process : Opt(Singles(units) \ {<<>>}),
        properties : Opt(Singles(properties) \ {<<>>})]
       \cup
       [kind : {"ModifyProductionSystem"},
        name : {None, Some(""), Some("ps2")},
        delete_properties : {None},
        modify_properties : Opt(Singles({"p"} \X properties) \ {<<>>}),
        add_properties : Opt(Singles(properties) \ {<<>>})]
       \cup
       [kind : {"ModifyTypes"}, delete : {None}, add : Opt(Singles(types) \ {<<>>})]
       \cup
       [kind : {"ModifyUnitProcess"},
        delete : {None},
        modify : Opt(Singles({"u"} \X units) \ {<<>>}),
        add : Opt(Singles(units) \ {<<>>})]
       \cup
       [kind : {"RegisterData"},
        data : {<<NewUnitData("u", Some(<<NewRegisterData(n, "String", VStr("y"), None)>>),
                              None, None)>> : n \in {"d", ""}}]

NextNames ==
    \/ Handle(NameEvents, "Init")
    \/ Handle(NameEvents, "ModifyProductionSystem")
    \/ Handle(NameEvents, "ModifyTypes")
    \/ Handle(NameEvents, "ModifyUnitProcess")
    \/ Handle(NameEvents, "RegisterData")

SpecNames == Init /\ [][NextNames]_vars

\* The names a DynamicType declares: the names of the variants of its
\* enumerations, at any depth.
RECURSIVE VariantNames(_)
VariantNames(t) ==
    CASE t.tag \in {"Vec", "Option"} -> VariantNames(t.elem)
      [] t.tag = "Enum" ->
           DOMAIN t.variants \cup UNION {VariantNames(t.variants[v]) : v \in DOMAIN t.variants}
      [] OTHER -> {}

\* The names a definition of the schema declares: its field names and the
\* variant names of its enumerations.
DeclaredNames(fields) ==
    IF fields.tag = "Basic" THEN VariantNames(fields.t)
    ELSE DOMAIN fields.fields \cup UNION {VariantNames(fields.fields[f]) : f \in DOMAIN fields.fields}

\* The names of the entries of a list.
NameSet(list) == {list[i].name : i \in DOMAIN list}

\* Every name the document holds.
AllNames(doc) ==
    {doc.name}
    \cup DOMAIN doc.custom_types
    \cup UNION {DeclaredNames(doc.custom_types[n]) : n \in DOMAIN doc.custom_types}
    \cup NameSet(doc.unit_process)
    \cup UNION {NameSet(doc.unit_process[i].inputs) \cup NameSet(doc.unit_process[i].outputs)
                  \cup NameSet(doc.unit_process[i].properties) : i \in DOMAIN doc.unit_process}
    \cup NameSet(doc.properties)

\* C11: once an Init event has been accepted, every name of the document is
\* non-empty: the document name, every type name, every field name and
\* variant name of the schema, every unit-process name, every input, output
\* and property name.
NamesNonEmpty == initialized => "" \notin AllNames(state)

\* C11 happens: an event has just been rejected for an empty name on a
\* document an accepted Init had produced, which holds a type with a field or
\* a variant, a unit process with an input, an output and a property, and a
\* top-level property.
EmptyNameRejected ==
    /\ initialized
    /\ ~success
    /\ Len(error) = 1
    /\ error[1] \in {"Check error: Type name cannot be empty",
                     "Check error: Field name cannot be empty",
                     "Check error: Enum variant name cannot be empty",
                     "Check error: Unit process name cannot be empty",
                     "Check error: Data element name cannot be empty",
                     "Check error: Property name cannot be empty",
                     "ModifyProductionSystem error: New production system name cannot be empty"}
    /\ \E n \in DOMAIN state.custom_types : DeclaredNames(state.custom_types[n]) # {}
    /\ \E i \in DOMAIN state.unit_process :
          /\ state.unit_process[i].inputs # <<>>
          /\ state.unit_process[i].outputs # <<>>
          /\ state.unit_process[i].properties # <<>>
    /\ state.properties # <<>>

-----------------------------------------------------------------------------
(* Registration.  The specification SpecRegister draws unit processes      *)
(* whose slots carry targets and RegisterData events whose entries miss    *)
(* their slot in each way: by name, by type_name, by content, by target.   *)

\* The unit process of the name with input d (which has metadata), output e
\* and property p, all of type String; the input has the targets given, the
\* output has them too if both is true.
RegisterUnit(name, targets, both) ==
    NewUnit(name,
            <<[NewData("d", "String", VStr("x")) EXCEPT
                  !.metadata = Some([type_name |-> "String", content |-> VStr("m")]),
                  !.targets = targets]>>,
            <<[NewData("e", "String", VStr("x")) EXCEPT
                  !.targets = IF both THEN targets ELSE None]>>,
            <<NewProperty("p", "String", VStr("x"))>>)

\* Init defines the type A (a String) and the unit processes u and v, or a
\* unit process one of whose slots has targets.  ModifyUnitProcess replaces
\* u or adds t, with and without targets.  RegisterData carries one entry
\* for u: for its input the well-formed entry, then one that differs from
\* it in its name, in its type_name (A, to which the content conforms), in
\* its content, in its targets (empty, well-formed, with an empty field),
\* and two entries of which one names no input; likewise, with fewer
\* entries, for its output and its property.
RegisterEvents ==
    LET reg(n, t, c, g) == NewRegisterData(n, t, c, g)
        inputs == {reg("d", "String", VStr("y"), None), reg("x", "String", VStr("y"), None),
                   reg("d", "A", VStr("y"), None), reg("d", "String", VNum, None),
                   reg("d", "String", VStr("y"), Some(<<>>)),
                   reg("d", "String", VStr("y"), Some(<<GoodTarget>>))}
                  \cup {reg("d", "String", VStr("y"), Some(<<[GoodTarget EXCEPT ![f] = ""]>>)) :
                          f \in {"governance_id", "subject_id", "unit_process"}}
        outputs == {reg("e", "String", VStr("y"), None), reg("x", "String", VStr("y"), None),
                    reg("e", "A", VStr("y"), None),
                    reg("e", "String", VStr("y"), Some(<<GoodTarget>>))}
        properties == {NewProperty("p", "String", VStr("y")), NewProperty("x", "String", VStr("y")),
                       NewProperty("p", "A", VStr("y")), NewProperty("p", "String", VNum)}
        present == {Some(<<>>), Some(<<GoodTarget>>)}
    IN [kind : {"Init"}, name : {"ps"},
        types : {Some(<<<<"A", Basic(TString)>>>>)},
        unit_process : {Some(<<RegisterUnit("u", None, FALSE), RegisterUnit("v", None, FALSE)>>)}
                       \cup {Some(<<RegisterUnit("u", g, b)>>) : g \in present, b \in BOOLEAN},
        properties : {None}]
       \cup
       [kind : {"ModifyUnitProcess"}, delete : {None},
        modify : {None} \cup {Some(<<<<"u", RegisterUnit("u", g, FALSE)>>>>) :
                                g \in {None} \cup present},
        add : {None} \cup {Some(<<RegisterUnit("t", g, TRUE)>>) : g \in {None} \cup present}]
       \cup
       [kind : {"RegisterData"},
        data : {<<d>> : d \in
                 [name : {"u"},
                  inputs : Opt(Singles(inputs))
                           \cup {Some(<<reg("d", "String", VStr("y"), None),
                                        reg("x", "String", VStr("y"), None)>>),
                                 Some(<<reg("x", "String", VStr("y"), None),
                                        reg("d", "String", VStr("y"), None)>>)},
                  outputs : Opt(Singles(outputs)),
                  properties : Opt(Singles(properties))]}]

NextRegister ==
    \/ Handle(RegisterEvents, "Init")
    \/ Handle(RegisterEvents, "ModifyUnitProcess")
    \/ Handle(RegisterEvents, "RegisterData")

SpecRegister == Init /\ [][NextRegister]_vars

\* The entries an optional sub-batch supplies, none if it is absent.
Entries(o) == IF o = None THEN <<>> ELSE Unwrap(o)

\* The targets a slot or an entry carries, none if they are absent.
TargetsOf(d) == {Entries(d.targets)[i] : i \in DOMAIN Entries(d.targets)}

\* The input and output slots of the document.
DataSlots(doc) ==
    UNION {{doc.unit_process[i].inputs[j] : j \in DOMAIN doc.unit_process[i].inputs}
           \cup {doc.unit_process[i].outputs[j] : j \in DOMAIN doc.unit_process[i].outputs} :
             i \in DOMAIN doc.unit_process}

\* The input and output entries of a RegisterData event.
DataEntries(ev) ==
    UNION {{Entries(ev.data[k].inputs)[j] : j \in DOMAIN Entries(ev.data[k].inputs)}
           \cup {Entries(ev.data[k].outputs)[j] : j \in DOMAIN Entries(ev.data[k].outputs)} :
             k \in DOMAIN ev.data}

\* C12: a RegisterData event with an entry one of whose targets has an empty
\* governance_id, subject_id or unit_process is rejected, and every target
\* stored in an input or output slot of the document has its three fields
\* non-empty.
StoredTargetsComplete ==
    /\ \A ev \in RegisterEvents :
          (/\ ev.kind = "RegisterData"
           /\ \E d \in DataEntries(ev) : \E t \in TargetsOf(d) : TargetHasEmptyField(t))
          => ~contract_logic(state, ev).success
    /\ \A d \in DataSlots(state) : \A t \in TargetsOf(d) : ~TargetHasEmptyField(t)

\* The unit processes an Init or ModifyUnitProcess event defines.
DefinedUnits(ev) ==
    IF ev.kind = "Init"
    THEN {Entries(ev.unit_process)[i] : i \in DOMAIN Entries(ev.unit_process)}
    ELSE {Entries(ev.modify)[i][2] : i \in DOMAIN Entries(ev.modify)}
         \cup {Entries(ev.add)[i] : i \in DOMAIN Entries(ev.add)}

\* The unit process has an input or an output whose targets is present.
HasTargets(unit) ==
    \/ \E j \in DOMAIN unit.inputs : IsSome(unit.inputs[j].targets)
    \/ \E j \in DOMAIN unit.outputs : IsSome(unit.outputs[j].targets)

\* The slots of the document whose targets is present, each by the name of
\* its unit process, its list and its own name.
TargetSlots(doc) ==
    UNION {{<<doc.unit_process[i].name, "inputs", doc.unit_process[i].inputs[j].name>> :
              j \in {j \in DOMAIN doc.unit_process[i].inputs :
                       IsSome(doc.unit_process[i].inputs[j].targets)}}
           \cup
           {<<doc.unit_process[i].name, "outputs", doc.unit_process[i].outputs[j].name>> :
              j \in {j \in DOMAIN doc.unit_process[i].outputs :
                       IsSome(doc.unit_process[i].outputs[j].targets)}} :
             i \in DOMAIN doc.unit_process}

\* An Init or ModifyUnitProcess event that defines a unit process with an
\* input or output whose targets is present is rejected.
DefinitionWithTargetsRejected ==
    \A ev \in RegisterEvents :
       (ev.kind \in {"Init", "ModifyUnitProcess"} /\ \E u \in DefinedUnits(ev) : HasTargets(u))
       => ~contract_logic(state, ev).success

\* C13: Init, ModifyUnitProcess add and ModifyUnitProcess modify reject any
\* unit process with an input or output whose targets is present, even an
\* empty list; and a slot comes to have targets present only through an
\* accepted RegisterData event.
TargetsOnlyByRegistration ==
    [][/\ DefinitionWithTargetsRejected
       /\ ~(TargetSlots(state') \subseteq TargetSlots(state))
            => (success' /\ last' = "RegisterData")]_vars

\* The RegisterData event has an entry for the unit process of the name u
\* whose sub-batch `list` has an entry of the name n.
Addressed(ev, u, list, n) ==
    \E k \in DOMAIN ev.data :
       /\ ev.data[k].name = u
       /\ \E j \in DOMAIN Entries(ev.data[k][list]) : Entries(ev.data[k][list])[j].name = n

\* The list `list` of unit process new is that of unit process old up to the
\* content (and the targets, if any) of the slots the event addresses.
SlotsFramed(ev, old, new, list) ==
    /\ Len(new[list]) = Len(old[list])
    /\ \A j \in DOMAIN old[list] :
          /\ new[list][j].name = old[list][j].name
          /\ new[list][j].type_name = old[list][j].type_name
          /\ list # "properties" => new[list][j].metadata = old[list][j].metadata
          /\ ~Addressed(ev, old.name, list, old[list][j].name) => new[list][j] = old[list][j]

\* The result r of the call on document st with the RegisterData event ev,
\* if it accepts the event, differs from st in nothing but the content and
\* targets of addressed inputs and outputs and the content of addressed
\* properties of unit processes.
FrameHolds(st, ev, r) ==
    r.success =>
       /\ r.state.version = st.version
       /\ r.state.name = st.name
       /\ r.state.custom_types = st.custom_types
       /\ r.state.properties = st.properties
       /\ Len(r.state.unit_process) = Len(st.unit_process)
       /\ \A i \in DOMAIN st.unit_process :
             /\ r.state.unit_process[i].name = st.unit_process[i].name
             /\ \A list \in {"inputs", "outputs", "properties"} :
                   SlotsFramed(ev, st.unit_process[i], r.state.unit_process[i], list)

\* C14: an accepted RegisterData event changes nothing except the content and
\* targets of the addressed input and output slots and the content of the
\* addressed unit-process properties: version, document name, schema,
\* top-level properties, the number and order of the unit processes and of
\* their slots, every slot's name, type_name and metadata, and every slot
\* the event does not address stay as they were.
RegisterDataFrame ==
    \A ev \in RegisterEvents :
       ev.kind = "RegisterData" => FrameHolds(state, ev, contract_logic(state, ev))

\* C14 happens: a RegisterData event has just been accepted that gave input d
\* of u, which has metadata, new content and targets, and left output e of u
\* and the unit process v as they were defined.
RegisteredInputOnly ==
    /\ success
    /\ last = "RegisterData"
    /\ Len(state.unit_process) = 2
    /\ state.unit_process[1].name = "u"
    /\ state.unit_process[1].inputs[1].content = VStr("y")
    /\ state.unit_process[1].inputs[1].targets = Some(<<GoodTarget>>)
    /\ IsSome(state.unit_process[1].inputs[1].metadata)
    /\ state.unit_process[1].outputs[1].content = VStr("x")
    /\ state.unit_process[2] = RegisterUnit("v", None, FALSE)

\* The document has a unit process of the name.
UnitExists(doc, name) == \E i \in DOMAIN doc.unit_process : doc.unit_process[i].name = name

\* C15: a RegisterData event one of whose entries names a unit process that
\* does not exist is rejected, and the document of the result shows no
\* update from any entry of the event, the valid entries that precede the
\* failing one included.
UnknownUnitRejectsWholeBatch ==
    \A ev \in RegisterDataEvents :
       (\E k \in DOMAIN ev.data : ~UnitExists(state, ev.data[k].name))
       => (/\ ~contract_logic(state, ev).success
           /\ contract_logic(state, ev).state = state)

\* The first unit process of the document with the name.
UnitNamed(doc, name) ==
    doc.unit_process[CHOOSE i \in DOMAIN doc.unit_process :
                        /\ doc.unit_process[i].name = name
                        /\ \A h \in 1..(i - 1) : doc.unit_process[h].name # name]

\* The RegisterData event has one entry, which supplies a non-empty
\* properties sub-batch and neither inputs nor outputs.
PropertiesOnly(ev) ==
    /\ Len(ev.data) = 1
    /\ ev.data[1].inputs = None
    /\ ev.data[1].outputs = None
    /\ Entries(ev.data[1].properties) # <<>>

\* Every entry of the sub-batch is a String that matches a property of the
\* unit process by name and type_name.
PropertiesMatch(unit, properties) ==
    \A j \in DOMAIN properties :
       /\ properties[j].type_name = "String"
       /\ properties[j].content.k = "str"
       /\ \E p \in DOMAIN unit.properties :
             /\ unit.properties[p].name = properties[j].name
             /\ unit.properties[p].type_name = properties[j].type_name

\* The properties of the unit process hold the content the sub-batch gives.
PropertiesReplaced(unit, properties) ==
    \A j \in DOMAIN properties : \A p \in DOMAIN unit.properties :
       unit.properties[p].name = properties[j].name
       => unit.properties[p].content = properties[j].content

\* C16: a RegisterData update that names an existing unit process and
\* supplies only a non-empty properties sub-batch, each entry matching a
\* property of that unit process by name and type_name with conforming
\* content, is accepted and replaces the content of those properties.
PropertiesOnlyUpdateAccepted ==
    \A ev \in RegisterEvents :
       (/\ ev.kind = "RegisterData"
        /\ PropertiesOnly(ev)
        /\ UnitExists(state, ev.data[1].name)
        /\ PropertiesMatch(UnitNamed(state, ev.data[1].name), Unwrap(ev.data[1].properties)))
       => (/\ contract_logic(state, ev).success
           /\ PropertiesReplaced(UnitNamed(contract_logic(state, ev).state, ev.data[1].name),
                                 Unwrap(ev.data[1].properties)))

\* The RegisterData event has one entry, for a unit process of the document,
\* whose properties sub-batch is not empty and matches.
OneEntryWithProperties(doc, ev) ==
    /\ Len(ev.data) = 1
    /\ UnitExists(doc, ev.data[1].name)
    /\ Entries(ev.data[1].properties) # <<>>
    /\ PropertiesMatch(UnitNamed(doc, ev.data[1].name), Unwrap(ev.data[1].properties))

\* The event without the properties sub-batch of its entry.
WithoutProperties(ev) == [ev EXCEPT !.data[1].properties = None]

\* C16 as amended: a RegisterData update that names an existing unit process
\* and supplies a non-empty properties sub-batch, each entry matching a
\* property of the unit process by name and type_name with conforming
\* content, is rejected and leaves the document as it was if inputs and
\* outputs are both absent; otherwise it is accepted exactly if the update
\* without its properties is, and then the content of those properties is
\* replaced.
PropertiesNeedInputsOrOutputs ==
    \A ev \in RegisterEvents :
       (ev.kind = "RegisterData" /\ OneEntryWithProperties(state, ev)) =>
          IF ev.data[1].inputs = None /\ ev.data[1].outputs = None
          THEN /\ ~contract_logic(state, ev).success
               /\ contract_logic(state, ev).state = state
          ELSE /\ contract_logic(state, ev).success
                  = contract_logic(state, WithoutProperties(ev)).success
               /\ contract_logic(state, ev).success =>
                     PropertiesReplaced(
                        UnitNamed(contract_logic(state, ev).state, ev.data[1].name),
                        Unwrap(ev.data[1].properties))

\* C16 happens: an update with properties alone has just been rejected for
\* its missing inputs and outputs, on a document where an earlier update had
\* replaced the content of the same property together with that of an input.
PropertiesAloneRejected ==
    /\ ~success
    /\ last = "RegisterData"
    /\ error = ErrAt("Check error: Cannot register data for unit", "u")
    /\ UnitExists(state, "u")
    /\ UnitNamed(state, "u").properties # <<>>
    /\ UnitNamed(state, "u").properties[1].content = VStr("y")

\* Some entry of the sub-batch has no slot of its name in the list.
Unmatched(entries, slots) ==
    \E j \in DOMAIN entries : \A i \in DOMAIN slots : slots[i].name # entries[j].name

\* Some entry of the sub-batch has a slot of its name in the list whose
\* type_name is not the entry's.
TypeNameDiffers(entries, slots) ==
    \E j \in DOMAIN entries : \E i \in DOMAIN slots :
       slots[i].name = entries[j].name /\ slots[i].type_name # entries[j].type_name

\* C17: a RegisterData update is rejected if an entry of its inputs, outputs
\* or properties sub-batch has no slot of the same name in the list of the
\* unit process it addresses, or if it has one whose declared type_name is
\* not the entry's, also when the content conforms to the declared type.
MismatchedEntryRejected ==
    \A ev \in RegisterEvents :
       (/\ ev.kind = "RegisterData"
        /\ \E k \in DOMAIN ev.data :
              /\ UnitExists(state, ev.data[k].name)
              /\ \E list \in {"inputs", "outputs", "properties"} :
                    \/ Unmatched(Entries(ev.data[k][list]),
                                 UnitNamed(state, ev.data[k].name)[list])
                    \/ TypeNameDiffers(Entries(ev.data[k][list]),
                                       UnitNamed(state, ev.data[k].name)[list]))
       => ~contract_logic(state, ev).success

\* C17 happens: an update of the unit process u has just been rejected
\* because the type_name of an entry is not that of its slot, or because an
\* entry named no slot.
MismatchSeen ==
    /\ ~success
    /\ last = "RegisterData"
    /\ UnitExists(state, "u")
    /\ error \in {ErrAt("Check error: Type mismatch", "A"),
                  ErrAt("Check error: Failed to update input(s) in unit process", "u"),
                  ErrAt("Check error: Failed to update output(s) in unit process", "u"),
                  ErrAt("Check error: Failed to update propert(y/ies) in unit process", "u")}

\* Some list parameter of the event is present and empty: a parameter of a
\* ChangeProductionSystem event, the list of a RegisterData event, or a
\* sub-batch of one of its entries.
HasEmptyList(ev) ==
    CASE ev.kind = "Init" ->
           Some(<<>>) \in {ev.types, ev.unit_process, ev.properties}
      [] ev.kind = "ModifyProductionSystem" ->
           Some(<<>>) \in {ev.delete_properties, ev.modify_properties, ev.add_properties}
      [] ev.kind = "ModifyTypes" ->
           Some(<<>>) \in {ev.delete, ev.add}
      [] ev.kind = "ModifyUnitProcess" ->
           Some(<<>>) \in {ev.delete, ev.modify, ev.add}
      [] ev.kind = "RegisterData" ->
           \/ ev.data = <<>>
           \/ \E k \in DOMAIN ev.data :
                 Some(<<>>) \in {ev.data[k].inputs, ev.data[k].outputs, ev.data[k].properties}

\* C18: an event with a list parameter that is present and empty is
\* rejected: Init types, unit_process, properties; ModifyProductionSystem
\* delete_properties, modify_properties, add_properties; ModifyTypes delete,
\* add; ModifyUnitProcess delete, modify, add; the RegisterData list and each
\* inputs, outputs or properties sub-batch supplied.
EmptyListRejected ==
    \A ev \in InitEvents \cup ModifyProductionSystemEvents \cup ModifyTypesEvents
              \cup ModifyUnitProcessEvents \cup RegisterDataEvents \cup RegisterEvents :
       HasEmptyList(ev) => ~contract_logic(state, ev).success

-----------------------------------------------------------------------------
(* Values.  The specification SpecValues draws a record type or an         *)
(* enumeration T and JSON values for a property p of that type.            *)

\* The JSON objects with the keys of a subset of keys and values of values.
JsonObjects(keys, values) ==
    {[k |-> "obj", o |-> f] : f \in UNION {[S -> values] : S \in SUBSET keys}}

\* Init defines the type T and the property p of type T with some content;
\* ModifyProductionSystem replaces p by a property of type T with some
\* content.  T is a record type with the fields a, or a and b, each a String
\* or an optional String, or an enumeration with the variants X and Y, with
\* and without payload.  The content is a scalar, an array, an object over
\* the keys a, b and x (not a field) with strings, numbers and nulls, or an
\* object of at most two keys over X, Y and Z (not a variant).
ValueEvents ==
    LET string == {TString, [tag |-> "Option", elem |-> TString]}
        records == {Object(f) : f \in [{"a"} -> string] \cup [{"a", "b"} -> string]}
        enums == {Basic(TEnum(v)) :
                    v \in {[n \in {"X"} |-> TDummy],
                           [n \in {"X", "Y"} |-> IF n = "X" THEN TDummy ELSE TString],
                           [n \in {"X", "Y"} |-> IF n = "X" THEN TString ELSE [tag |-> "u64"]]}}
        scalars == {VStr("x"), VStr("X"), VStr("Y"), VStr("Z"), VNum, [k |-> "null"],
                    [k |-> "bool"], [k |-> "arr", a |-> <<VStr("X")>>]}
        values == scalars
                  \cup JsonObjects({"a", "b", "x"}, {VStr("x"), VNum, [k |-> "null"]})
                  \cup {v \in JsonObjects({"X", "Y", "Z"}, {VStr("x"), VNum}) :
                          Cardinality(DOMAIN v.o) <= 2}
    IN [kind : {"Init"}, name : {"ps"},
        types : {Some(<<<<"T", f>>>>) : f \in records \cup enums},
        unit_process : {None},
        properties : {Some(<<NewProperty("p", "T", v)>>) : v \in values}]
       \cup
       [kind : {"ModifyProductionSystem"}, name : {None}, delete_properties : {None},
        modify_properties : {Some(<<<<"p", NewProperty("p", "T", v)>>>>) : v \in values},
        add_properties : {None}]

NextValues ==
    \/ Handle(ValueEvents, "Init")
    \/ Handle(ValueEvents, "ModifyProductionSystem")

SpecValues == Init /\ [][NextValues]_vars

\* The content an event of SpecValues gives the property p.
ContentOf(ev) ==
    IF ev.kind = "Init" THEN Unwrap(ev.properties)[1].content
    ELSE Unwrap(ev.modify_properties)[1][2].content

\* The event of SpecValues reaches the check of its content on the document:
\* an Init on a document of version 0, a ModifyProductionSystem on a document
\* that has the type T and the property p.
ReachesContent(doc, ev) ==
    IF ev.kind = "Init" THEN doc.version = 0
    ELSE /\ doc.version # 0
         /\ "T" \in DOMAIN doc.custom_types
         /\ \E i \in DOMAIN doc.properties : doc.properties[i].name = "p"

\* The definition of T the content is checked against: the one the Init
\* event gives, the one of the document otherwise.
TypeOfT(doc, ev) ==
    IF ev.kind = "Init" THEN Unwrap(ev.types)[1][2] ELSE doc.custom_types["T"]

\* A value conforms to a type built from String, u64 and Option: a string, a
\* non-negative integer, null or a value of the inner type.
RECURSIVE Conforms(_, _)
Conforms(t, v) ==
    CASE t.tag = "String" -> v.k = "str"
      [] t.tag = "u64" -> v.k = "num" /\ v.repr = "PosInt"
      [] t.tag = "Option" -> v.k = "null" \/ Conforms(t.elem, v)
      [] OTHER -> FALSE

\* The object has no undeclared key, has every field that is not optional,
\* and every field it has conforms to its declared type.
ObjectConforms(fields, v) ==
    /\ DOMAIN v.o \subseteq DOMAIN fields
    /\ \A f \in DOMAIN fields :
          IF f \in DOMAIN v.o THEN Conforms(fields[f], v.o[f]) ELSE fields[f].tag = "Option"

\* The number of keys of the object lies between the number of the fields
\* that are not optional and the number of all fields.
CountInRange(fields, v) ==
    /\ Cardinality(DOMAIN v.o)
          >= Cardinality(DOMAIN fields) - Cardinality({f \in DOMAIN fields : fields[f].tag = "Option"})
    /\ Cardinality(DOMAIN v.o) <= Cardinality(DOMAIN fields)

\* The verdict `accepted` on the value v for the record type with the fields.
ArityHolds(fields, v, accepted) ==
    /\ v.k = "obj" => (accepted <=> ObjectConforms(fields, v))
    /\ (v.k = "obj" /\ ~CountInRange(fields, v)) => ~accepted
    /\ accepted => (v.k = "obj" /\ CountInRange(fields, v))

\* C19: for a record type with n fields of which k are optional, an object is
\* accepted exactly if it has no undeclared key, has every field that is not
\* optional, and every field it has conforms to its declared type, null
\* conforming to an optional field; a value whose number of keys lies outside
\* [n-k, n] is rejected, and an accepted value has it inside.
OptionalFieldArity ==
    \A ev \in ValueEvents :
       (ReachesContent(state, ev) /\ TypeOfT(state, ev).tag = "Object")
       => ArityHolds(TypeOfT(state, ev).fields, ContentOf(ev),
                     contract_logic(state, ev).success)

\* C19 happens: T is a record type with a required field a and an optional
\* field b; an object with a alone is the content of p, and a replacement
\* of p has just been rejected for a missing required field.
RequiredFieldMissed ==
    /\ ~success
    /\ last = "ModifyProductionSystem"
    /\ error = ErrAt("Check error: Missing required field", "a")
    /\ "T" \in DOMAIN state.custom_types
    /\ state.custom_types["T"] = Object([f \in {"a", "b"} |->
                                           IF f = "a" THEN TString
                                           ELSE [tag |-> "Option", elem |-> TString]])
    /\ state.properties # <<>>
    /\ state.properties[1].content = [k |-> "obj", o |-> [f \in {"a"} |-> VStr("x")]]

\* The value has one of the two shapes of a value of the enumeration: an
\* object with one key that names a variant with a payload type, the value
\* under the key conforming to that type; or a string that names a variant
\* declared Dummy.
EnumConforms(variants, v) ==
    \/ /\ v.k = "obj"
       /\ Cardinality(DOMAIN v.o) = 1
       /\ \A key \in DOMAIN v.o :
             /\ key \in DOMAIN variants
             /\ variants[key].tag # "Dummy"
             /\ Conforms(variants[key], v.o[key])
    \/ /\ v.k = "str"
       /\ v.s \in DOMAIN variants
       /\ variants[v.s].tag = "Dummy"

\* C20: a value conforms to an Enum type exactly if it is a single-key
\* object whose key is a declared variant with a non-Dummy type and whose
\* value conforms to that type, or a string equal to the name of a variant
\* declared Dummy; an object that names a Dummy variant, a string that names
\* a payload variant, an unknown key or string, an object with no key or
\* several, and a value of any other kind are rejected.
EnumShapes ==
    \A ev \in ValueEvents :
       (/\ ReachesContent(state, ev)
        /\ TypeOfT(state, ev).tag = "Basic"
        /\ TypeOfT(state, ev).t.tag = "Enum")
       => (contract_logic(state, ev).success
             <=> EnumConforms(TypeOfT(state, ev).t.variants, ContentOf(ev)))

\* C20 happens: T is an enumeration with the Dummy variant X and the String
\* variant Y; the string X is the content of p, and a replacement of p by an
\* object that names X has just been rejected.
DummyVariantObjectRejected ==
    /\ ~success
    /\ last = "ModifyProductionSystem"
    /\ error = Err("Check error: Dummy type encountered during deserialization")
    /\ "T" \in DOMAIN state.custom_types
    /\ state.custom_types["T"]
         = Basic(TEnum([n \in {"X", "Y"} |-> IF n = "X" THEN TDummy ELSE TString]))
    /\ state.properties # <<>>
    /\ state.properties[1].content = VStr("X")

-----------------------------------------------------------------------------
(* Types.  A focused specification of the schema: type definitions with    *)
(* Dummy and Option in every place, under reserved names, and with every   *)
(* shape of references between three types.                                *)

\* Init and ModifyTypes with one batch of types each; ModifyTypes may first
\* delete A.  placed: the type A as a Basic type and as a record with
\* one field f, of every DynamicType of at most three levels built from
\* String and Dummy with Vec, Option and an Enum of one variant X.
\* reserved: a String under each reserved name, alone and after a good A.
\* graphs: A, B and C, each a String or a record that refers to A, B or C
\* from its field r, A also from both r and s (B twice, B and C in either
\* order, itself and B); a batch defines one or
\* two of them, or all three with a reference to itself each.  twice: two
\* definitions of A in one batch, a String and a Dummy, in either order.
\* deep: A with a reference of the empty name, and with a reference to B
\* inside a Vec and inside an Enum variant.
TypeEvents ==
    LET wrap(S) == {[tag |-> "Vec", elem |-> t] : t \in S}
                   \cup {[tag |-> "Option", elem |-> t] : t \in S}
                   \cup {TEnum([v \in {"X"} |-> t]) : t \in S}
        leaf == {TString, TDummy}
        nested == leaf \cup wrap(leaf \cup wrap(leaf))
        placed == {<<<<"A", f>>>> :
                     f \in {Basic(t) : t \in nested}
                           \cup {Object([f \in {"f"} |-> t]) : t \in nested}}
        names == {"String", "bool", "i64", "f64", "u64", "Dummy", "Option", "Enum",
                  "Type", "Vec"}
        reserved == {<<<<n, Basic(TString)>>>> : n \in names}
                    \cup {<<<<"A", Basic(TString)>>, <<n, Basic(TString)>>>> : n \in names}
        nodes == {"A", "B", "C"}
        one == {Basic(TString)} \cup {Object([f \in {"r"} |-> TType(x)]) : x \in nodes}
        two == {Object([f \in {"r", "s"} |-> TType(IF f = "r" THEN p[1] ELSE p[2])]) :
                  p \in {<<"B", "B">>, <<"B", "C">>, <<"C", "B">>, <<"A", "B">>}}
        a == {<<"A", f>> : f \in one \cup two}
        b == {<<"B", f>> : f \in one}
        c == {<<"C", f>> : f \in one}
        loop(n) == <<n, Object([f \in {"r"} |-> TType(n)])>>
        graphs == {<<x>> : x \in a \cup b \cup c}
                  \cup {<<x, y>> : x \in a, y \in b \cup c}
                  \cup {<<x, y>> : x \in b, y \in c}
                  \cup {<<loop("A"), loop("B"), loop("C")>>}
        twice == {<<<<"A", Basic(TDummy)>>, <<"A", Basic(TString)>>>>,
                  <<<<"A", Basic(TString)>>, <<"A", Basic(TDummy)>>>>}
        deep == {<<<<"A", Object([f \in {"r"} |-> TType("")])>>>>,
                 <<<<"A", Basic([tag |-> "Vec", elem |-> TType("B")])>>>>,
                 <<<<"A", Basic(TEnum([v \in {"X"} |-> TType("B")]))>>,
                   <<"B", Basic(TString)>>>>}
        batches == placed \cup reserved \cup graphs \cup twice \cup deep
    IN [kind : {"Init"}, name : {"ps"}, types : Opt(batches), unit_process : {None},
        properties : {None}]
       \cup
       [kind : {"ModifyTypes"}, delete : {None, Some(<<"A">>)}, add : Opt(batches)]

NextTypes ==
    \/ Handle(TypeEvents, "Init")
    \/ Handle(TypeEvents, "ModifyTypes")

SpecTypes == Init /\ [][NextTypes]_vars

\* The batch of types of an event of SpecTypes, empty if it has none.
BatchOf(ev) == IF AddedTypes(ev) = None THEN <<>> ELSE Unwrap(AddedTypes(ev))

\* C21: after any sequence of events the schema has no type named String,
\* bool, i64, f64, u64, Dummy, Option, Enum, Type or Vec; the five names
\* check_data resolves to a primitive are among them.
NoReservedTypeName ==
    DOMAIN state.custom_types
       \cap {"String", "bool", "i64", "f64", "u64", "Dummy", "Option", "Enum", "Type",
             "Vec"} = {}

\* A batch with a type named Vec after a good type A has just been rejected
\* for the reserved name, on a document whose schema has types.
ReservedNameRejected ==
    /\ last = "ModifyTypes"
    /\ ~success
    /\ error = ErrAt("Check error: The type name is reserved", "Vec")
    /\ DOMAIN state.custom_types # {}

\* The definition a batch gives each name it defines: the last one, as
\* temporal_types.insert leaves it.
Defined(batch) == insert_all(EmptyMap, batch)

\* Dummy occurs in the DynamicType t, itself not the declared type of an
\* Enum variant, elsewhere than as the declared type of an Enum variant.
RECURSIVE DummyOutsideVariant(_)
DummyOutsideVariant(t) ==
    CASE t.tag = "Dummy" -> TRUE
      [] t.tag \in {"Vec", "Option"} -> DummyOutsideVariant(t.elem)
      [] t.tag = "Enum" ->
           \E v \in DOMAIN t.variants :
              t.variants[v].tag # "Dummy" /\ DummyOutsideVariant(t.variants[v])
      [] OTHER -> FALSE

\* Dummy is the Basic type, the type of a field, or the element of a Vec or
\* an Option at any depth of some definition of the schema.
DummyMisplaced(schema) ==
    \E n \in DOMAIN schema :
       IF schema[n].tag = "Basic" THEN DummyOutsideVariant(schema[n].t)
       ELSE \E f \in DOMAIN schema[n].fields : DummyOutsideVariant(schema[n].fields[f])

\* C22: in the schema Dummy occurs only as the declared type of an Enum
\* variant, and an event whose batch defines a type with Dummy as a Basic
\* type, as the type of a field, or as the element of a Vec or an Option at
\* any depth, also inside the type of an Enum variant, is rejected.
DummyOnlyAsVariant ==
    /\ ~DummyMisplaced(state.custom_types)
    /\ \A ev \in TypeEvents :
          DummyMisplaced(Defined(BatchOf(ev))) => ~contract_logic(state, ev).success

\* A record whose field is a Dummy has just been rejected on a document that
\* has a schema.
DummyFieldRejected ==
    /\ last = "ModifyTypes"
    /\ ~success
    /\ error = ErrAt("Check error: Field has invalid type", "f")
    /\ DOMAIN state.custom_types # {}

\* Option occurs in the DynamicType t, itself not the type of a field of an
\* Object: as t, as the element of a Vec or of an Option, or as the declared
\* type of an Enum variant, at any depth.
RECURSIVE OptionInside(_)
OptionInside(t) ==
    CASE t.tag = "Option" -> TRUE
      [] t.tag = "Vec" -> OptionInside(t.elem)
      [] t.tag = "Enum" -> \E v \in DOMAIN t.variants : OptionInside(t.variants[v])
      [] OTHER -> FALSE

\* Some definition of the schema has an Option elsewhere than as the
\* outermost type of a field of an Object.
OptionMisplaced(schema) ==
    \E n \in DOMAIN schema :
       IF schema[n].tag = "Basic" THEN OptionInside(schema[n].t)
       ELSE \E f \in DOMAIN schema[n].fields :
               LET t == schema[n].fields[f]
               IN OptionInside(IF t.tag = "Option" THEN t.elem ELSE t)

\* C23: in the schema Option occurs only as the outermost type of a field of
\* an Object, and an event whose batch defines a type with Option as a Basic
\* type, as the direct element of a Vec or of another Option, or as the
\* declared type of an Enum variant, at any depth, is rejected.
OptionOnlyAsFieldType ==
    /\ ~OptionMisplaced(state.custom_types)
    /\ \A ev \in TypeEvents :
          OptionMisplaced(Defined(BatchOf(ev))) => ~contract_logic(state, ev).success

\* An Enum with a variant of type Option has just been rejected on a
\* document whose schema has a record with an optional field.
OptionVariantRejected ==
    /\ last = "ModifyTypes"
    /\ ~success
    /\ error = ErrAt("Check error: Enum variant cannot be of type Option", "X")
    /\ \E n \in DOMAIN state.custom_types :
          /\ state.custom_types[n].tag = "Object"
          /\ \E f \in DOMAIN state.custom_types[n].fields :
                state.custom_types[n].fields[f].tag = "Option"

-----------------------------------------------------------------------------
(* Content.                                                                *)

\* The inputs, outputs and properties of the unit processes, the present
\* metadata of the inputs and outputs, and the top-level properties of a
\* document, each as its type_name and content.
TypedContents(doc) ==
    LET typed(x) == [type_name |-> x.type_name, content |-> x.content]
        data == UNION {{u.inputs[i] : i \in DOMAIN u.inputs}
                         \cup {u.outputs[i] : i \in DOMAIN u.outputs} :
                          u \in {doc.unit_process[k] : k \in DOMAIN doc.unit_process}}
    IN {typed(d) : d \in data}
       \cup {typed(Unwrap(d.metadata)) : d \in {x \in data : IsSome(x.metadata)}}
       \cup UNION {{typed(u.properties[i]) : i \in DOMAIN u.properties} :
                     u \in {doc.unit_process[k] : k \in DOMAIN doc.unit_process}}
       \cup {typed(doc.properties[i]) : i \in DOMAIN doc.properties}

\* C24: in the document an accepted event leaves, every content conforms to
\* its type_name under the schema of the document, also after a ModifyTypes
\* event that deletes or redefines a type in use.
ContentConforms ==
    success =>
       \A c \in TypedContents(state) :
          check_data(c.type_name, c.content, state.custom_types) = Ok

-----------------------------------------------------------------------------
(* The result.                                                             *)

-----------------------------------------------------------------------------
(* Names that are not there.                                               *)

\* The entries of an optional list parameter, none if it is absent.
ListOf(o) == IF o = None THEN <<>> ELSE Unwrap(o)

\* How many entries of a list of the document carry the name.
Count(list, name) == Cardinality({i \in DOMAIN list : list[i].name = name})

\* Entry i of the delete list is processed when no entry of the list carries
\* its name any more: each earlier entry of the same name removed one.
DeleteMisses(list, delete, i) ==
    Count(list, delete[i]) <= Cardinality({j \in 1..(i - 1) : delete[j] = delete[i]})

\* Entry i of the modify list is processed when no entry of the list carries
\* its name: the delete list removed them, or earlier entries of the modify
\* list replaced them by entries of another name.
ModifyMisses(list, delete, modify, i) ==
    LET name == modify[i][1]
        earlier == 1..(i - 1)
    IN Count(list, name)
         + Cardinality({j \in earlier : modify[j][1] # name /\ modify[j][2].name = name})
       <= Cardinality({j \in DOMAIN delete : delete[j] = name})
            + Cardinality({j \in earlier : modify[j][1] = name /\ modify[j][2].name # name})

\* The event deletes or modifies, in the list of the document, a name that
\* is not there when its entry is processed.
NameMisses(list, delete, modify) ==
    \/ \E i \in DOMAIN delete : DeleteMisses(list, delete, i)
    \/ \E i \in DOMAIN modify : ModifyMisses(list, delete, modify, i)

\* The event lists a name twice in a delete list.
ListedTwice(delete) == \E i, j \in DOMAIN delete : i < j /\ delete[i] = delete[j]

\* The delete and modify lists of an event, and the list of the document
\* they address; a ModifyTypes event addresses the schema.
MissedBy(doc, ev) ==
    CASE ev.kind = "ModifyProductionSystem" ->
           NameMisses(doc.properties, ListOf(ev.delete_properties),
                      ListOf(ev.modify_properties))
      [] ev.kind = "ModifyUnitProcess" ->
           NameMisses(doc.unit_process, ListOf(ev.delete), ListOf(ev.modify))
      [] ev.kind = "ModifyTypes" ->
           \E i \in DOMAIN ListOf(ev.delete) :
              \/ ListOf(ev.delete)[i] \notin DOMAIN doc.custom_types
              \/ \E j \in 1..(i - 1) : ListOf(ev.delete)[j] = ListOf(ev.delete)[i]

ListsTwice(ev) ==
    ListedTwice(ListOf(IF ev.kind = "ModifyProductionSystem" THEN ev.delete_properties
                       ELSE ev.delete))

\* C27: an event that deletes or modifies a property, a type or a unit
\* process whose name is not in the draft when the entry is processed is
\* rejected, and so is an event that lists a name twice in a delete list.
MissingNameRejected ==
    \A ev \in ModifyProductionSystemEvents \cup ModifyTypesEvents
                \cup ModifyUnitProcessEvents :
       MissedBy(state, ev) \/ ListsTwice(ev) => ~contract_logic(state, ev).success

-----------------------------------------------------------------------------
(* The phases of ModifyUnitProcess.                                        *)

\* The unit processes of the list that carry the name once the delete list
\* and the modify list have been applied to it.
Remaining(list, delete, modify, name) ==
    Count(list, name)
      + Cardinality({j \in DOMAIN modify : modify[j][1] # name /\ modify[j][2].name = name})
      - Cardinality({j \in DOMAIN delete : delete[j] = name})
      - Cardinality({j \in DOMAIN modify : modify[j][1] = name /\ modify[j][2].name # name})

\* The event deletes the one unit process of a name from a document with
\* distinct names and adds a well-formed unit process of that name.
DeletesAndAddsAgain(doc, ev) ==
    /\ ev.modify = None
    /\ Len(ListOf(ev.delete)) = 1
    /\ Len(ListOf(ev.add)) = 1
    /\ ListOf(ev.add)[1].name = ListOf(ev.delete)[1]
    /\ Count(doc.unit_process, ListOf(ev.delete)[1]) = 1
    /\ DistinctNames(doc.unit_process)
    /\ UnitProcess_check_data(ListOf(ev.add)[1], doc.custom_types) = Ok

\* The event modifies a unit process under a name its delete list has.
ModifiesDeleted(ev) ==
    \E i \in DOMAIN ListOf(ev.delete), j \in DOMAIN ListOf(ev.modify) :
       ListOf(ev.modify)[j][1] = ListOf(ev.delete)[i]

\* The event adds a unit process under a name that remains after its delete
\* and modify lists.
AddsRemaining(doc, ev) ==
    \E i \in DOMAIN ListOf(ev.add) :
       Remaining(doc.unit_process, ListOf(ev.delete), ListOf(ev.modify),
                 ListOf(ev.add)[i].name) > 0

\* C28: a ModifyUnitProcess event applies delete, then modify, then add: a
\* name it deletes can be added again, a modify under a name it deletes is
\* rejected, and an add under a name that remains after delete and modify is
\* rejected.
PhasesInOrder ==
    state.version # 0 =>
       \A ev \in ModifyUnitProcessEvents :
          LET r == contract_logic(state, ev)
          IN /\ DeletesAndAddsAgain(state, ev) => r.success
             /\ ModifiesDeleted(ev) => ~r.success
             /\ AddsRemaining(state, ev) => ~r.success

-----------------------------------------------------------------------------
(* Cycles.                                                                 *)

\* The type of the schema reaches itself by one or more references.
OnCycle(schema, name) == name \in Closure(schema, Successors(schema, {name}))

\* C29: when an event is rejected for a circular dependency, the type the
\* error names lies on a reference cycle of the merged schema.
CycleErrorNamesTypeOnCycle ==
    \A ev \in TypeEvents :
       LET r == contract_logic(state, ev)
       IN BatchOf(ev) # <<>> /\ r.error # Ok
             /\ r.error[1] = "Check error: Circular dependency detected in type"
          => OnCycle(MergedSchema(state.custom_types, ev), r.error[2])

\* The nodes of a graph one edge away from a node of the set from; a graph
\* maps a node to the list of its neighbours.
GraphSuccessors(graph, from) ==
    UNION {{graph[n][i] : i \in DOMAIN graph[n]} : n \in from \cap DOMAIN graph}

\* The nodes reachable from the set seen by following edges.
RECURSIVE GraphClosure(_, _)
GraphClosure(graph, seen) ==
    IF GraphSuccessors(graph, seen) \subseteq seen THEN seen
    ELSE GraphClosure(graph, seen \cup GraphSuccessors(graph, seen))

\* Some node of the graph reaches itself by one or more edges.
GraphHasCycle(graph) ==
    \E n \in DOMAIN graph : n \in GraphClosure(graph, GraphSuccessors(graph, {n}))

\* The orders in which the nodes of a set can be visited.
Orders(S) ==
    {p \in [1..Cardinality(S) -> S] : \A i, j \in DOMAIN p : i # j => p[i] # p[j]}

\* The graph, and the graph with each list of neighbours reversed.
NeighbourOrders(graph) ==
    {graph, [n \in DOMAIN graph |->
               [i \in DOMAIN graph[n] |-> graph[n][Len(graph[n]) + 1 - i]]]}

\* The reference graph add_types hands to check_cycle when it adds the batch
\* of an event to the schema: [error, cycle_types] as the loop over the
\* merged schema ends.
GraphOf(schema, ev) ==
    add_types_loop(KeyOrder(DOMAIN MergedSchema(schema, ev)), MergedSchema(schema, ev),
                   [error |-> Ok, cycle_types |-> EmptyMap])

\* C30: on every reference graph the addition of a batch to the schema (by
\* Init on a new document, by ModifyTypes without delete later) hands to it,
\* in every order of the start nodes and of the neighbours, check_cycle
\* returns an error if and only if the graph has a cycle; a node reached
\* twice by paths without a cycle is not reported.
CheckCycleExact ==
    \A ev \in TypeEvents :
       /\ IF state.version = 0 THEN ev.kind = "Init"
          ELSE ev.kind = "ModifyTypes" /\ ev.delete = None
       /\ BatchOf(ev) # <<>>
       => LET r == GraphOf(state.custom_types, ev)
          IN r.error = Ok =>
                \A graph \in NeighbourOrders(r.cycle_types) :
                   LET cyclic == GraphHasCycle(graph)
                   IN \A keys \in Orders(DOMAIN graph) :
                         (check_cycle_loop(keys, graph,
                                           [error |-> Ok, visited |-> {},
                                            stack |-> {}]).error # Ok) <=> cyclic

\* A batch whose types refer to each other in a cycle has just been rejected
\* on a document whose schema has a type that refers to one type from two
\* fields.
CycleRejectedBesideTwoPaths ==
    /\ last = "ModifyTypes"
    /\ ~success
    /\ error # Ok
    /\ error[1] = "Check error: Circular dependency detected in type"
    /\ \E n \in DOMAIN state.custom_types :
          /\ state.custom_types[n].tag = "Object"
          /\ DOMAIN state.custom_types[n].fields = {"r", "s"}
          /\ state.custom_types[n].fields["r"] = state.custom_types[n].fields["s"]

-----------------------------------------------------------------------------
(* Deleting types.                                                         *)

\* Every entry of the delete list names a type that is in the schema when
\* the entry is processed: a type of the schema no earlier entry names.
DeleteEntriesExist(schema, delete) ==
    \A i \in DOMAIN delete :
       /\ delete[i] \in DOMAIN schema
       /\ \A j \in 1..(i - 1) : delete[j] # delete[i]

\* The document with the types of the delete list out of its schema and one
\* more version.
TypesDeleted(doc, delete) ==
    [doc EXCEPT !.custom_types = [n \in DOMAIN @ \ {delete[i] : i \in DOMAIN delete} |-> @[n]],
                !.version = @ + 1]

\* Some type of the schema refers to a name that is no type of the schema.
DanglingReference(schema) ==
    \E n \in DOMAIN schema : ~(FieldsRefs(schema[n]) \subseteq DOMAIN schema)

\* C31: a ModifyTypes event that only deletes is accepted if and only if each
\* name it lists is in the schema when its entry is processed, whether or not
\* a type, an input, an output or a property uses the name; it removes the
\* types it lists and nothing else.
DeleteChecksExistenceOnly ==
    state.version # 0 =>
       \A ev \in ModifyTypesEvents :
          ev.delete # None /\ ev.add = None =>
             LET r == contract_logic(state, ev)
             IN /\ r.success <=> DeleteEntriesExist(state.custom_types, Unwrap(ev.delete))
                /\ r.success => r.state = TypesDeleted(state, Unwrap(ev.delete))

\* An accepted ModifyTypes event has deleted a type that a remaining type
\* refers to.
ReferencedTypeDeleted ==
    /\ last = "ModifyTypes"
    /\ success
    /\ DanglingReference(state.custom_types)

\* C32: once a type of the schema refers to a name a delete has removed, a
\* ModifyTypes event that adds types is rejected, whatever it adds, unless
\* the schema merged from its delete list and its batch has no such
\* reference left: the event defines the missing name, or deletes or
\* replaces the type that refers to it.
DanglingReferenceBlocksAdd ==
    DanglingReference(state.custom_types) =>
       \A ev \in TypeEvents :
          /\ ev.kind = "ModifyTypes"
          /\ BatchOf(ev) # <<>>
          /\ DanglingReference(MergedSchema(state.custom_types, ev))
          => ~contract_logic(state, ev).success

\* The schema has a type that refers to the deleted type A, and an event that
\* adds types has just been rejected because A is not defined.
AddRejectedForMissingType ==
    /\ last = "ModifyTypes"
    /\ ~success
    /\ error = ErrAt("Check error: Custom type is not defined", "A")
    /\ DanglingReference(state.custom_types)

-----------------------------------------------------------------------------
(* References.                                                             *)

\* Every reference of the schema has a name, and the name of a type of the
\* schema.
ReferencesResolve(schema) ==
    \A n \in DOMAIN schema :
       "" \notin FieldsRefs(schema[n]) /\ FieldsRefs(schema[n]) \subseteq DOMAIN schema

\* Some type of the batch refers to another type of the batch.
RefersWithin(batch) ==
    \E i, j \in DOMAIN batch : i # j /\ batch[j][1] \in FieldsRefs(batch[i][2])

\* The event with the pairs of its batch in the opposite order.
Reversed(ev) ==
    LET batch == BatchOf(ev)
        back == Some([i \in DOMAIN batch |-> batch[Len(batch) + 1 - i]])
    IN IF ev.kind = "Init" THEN [ev EXCEPT !.types = back] ELSE [ev EXCEPT !.add = back]

\* C33: an event that adds types and comes in its turn (Init first, then
\* ModifyTypes) is accepted only if every reference of the
\* merged schema (the prior schema, the batch over it, a later pair of the
\* batch over an earlier one) has a non-empty name that is a key of the
\* merged schema; a batch of types with distinct names, one of which refers
\* to another, added to the schema as it is, is accepted in one order of its
\* pairs if and only if it is in the opposite order.
AcceptedReferencesResolve ==
    \A ev \in TypeEvents :
       BatchOf(ev) # <<>> /\ (ev.kind = "Init") = (state.version = 0) =>
          /\ ~ReferencesResolve(MergedSchema(state.custom_types, ev))
                => ~contract_logic(state, ev).success
          /\ RefersWithin(BatchOf(ev)) /\ (ev.kind = "ModifyTypes" => ev.delete = None)
                /\ Cardinality(DOMAIN Defined(BatchOf(ev))) = Len(BatchOf(ev))
             => contract_logic(state, ev).success
                   = contract_logic(state, Reversed(ev)).success

\* A batch has just been accepted whose first type refers to its second and
\* whose second type refers to a type of the prior schema.
ForwardReferenceAccepted ==
    /\ last = "ModifyTypes"
    /\ success
    /\ {"A", "B", "C"} \subseteq DOMAIN state.custom_types
    /\ FieldsRefs(state.custom_types["A"]) = {"B"}
    /\ FieldsRefs(state.custom_types["B"]) = {"C"}


-----------------------------------------------------------------------------
(* Modifying a unit process.                                               *)

\* The list with its first entry named key replaced by replacement, every
\* other position as it is.
ReplacedInPlace(list, key, replacement) ==
    [i \in DOMAIN list |->
       IF list[i].name = key /\ \A j \in 1..(i - 1) : list[j].name # key
       THEN replacement ELSE list[i]]

\* The ModifyUnitProcess event (one of ModifyUnitProcessEvents) whose one
\* parameter is the modify list with the entry (key, replacement).
ModifyOne(key, replacement) ==
    [kind |-> "ModifyUnitProcess", delete |-> None,
     modify |-> Some(<<<<key, replacement>>>>), add |-> None]

\* C34: an accepted ModifyUnitProcess whose one parameter is a modify list
\* with the entry (key, replacement) leaves the unit-process list of the
\* document with the replacement, whole and without targets, at the
\* position of the first unit process named key, and with every other unit
\* process where it was and as it was; the list keeps its length.
ModifyReplacesInPlace ==
    state.version # 0 =>
       \A key \in UnitNames, replacement \in UnitChoices :
          contract_logic(state, ModifyOne(key, replacement)).success
          => /\ UnitExists(state, key)
             /\ ~HasTargets(replacement)
             /\ contract_logic(state, ModifyOne(key, replacement)).state.unit_process
                  = ReplacedInPlace(state.unit_process, key, replacement)

\* A ModifyUnitProcess was accepted and the document holds two unit
\* processes named v: one of two unit processes was replaced (an add is
\* rejected for the duplicate name, a delete leaves fewer than two).
FirstUnitReplaced ==
    /\ last = "ModifyUnitProcess"
    /\ success
    /\ state.version = 2
    /\ Len(state.unit_process) = 2
    /\ state.unit_process[1].name = "v"
    /\ state.unit_process[2].name = "v"


-----------------------------------------------------------------------------
(* The order of an Init event.                                             *)

\* The empty document with the types the Init event declares for schema.
Declaring(doc, ev) ==
    [doc EXCEPT !.custom_types = Defined(Entries(ev.types))]

\* The Init event with its types alone.
TypesAlone(ev) == [ev EXCEPT !.unit_process = None, !.properties = None]

\* C35: on the empty document of version 0 an Init event is accepted if and
\* only if its name is not empty, its types alone are accepted, and its
\* unit processes and its properties pass add_unit_process and
\* add_new_properties against the schema its types declare; the accepted
\* event leaves a document with its name, version 1, the types it declares
\* (for a name declared twice, the last definition), and its unit processes
\* and properties as listed.
InitInOrder ==
    state.version = 0 =>
       \A ev \in InitEvents :
          /\ contract_logic(state, ev).success
                <=> /\ ev.name # ""
                    /\ contract_logic(state, TypesAlone(ev)).success
                    /\ ev.unit_process # None =>
                          add_unit_process(Declaring(state, ev),
                                           Unwrap(ev.unit_process)).error = Ok
                    /\ ev.properties # None =>
                          add_new_properties(Declaring(state, ev),
                                             Unwrap(ev.properties)).error = Ok
          /\ contract_logic(state, ev).success
                => contract_logic(state, ev).state
                     = [name |-> ev.name, version |-> 1,
                        custom_types |-> Defined(Entries(ev.types)),
                        unit_process |-> Entries(ev.unit_process),
                        properties |-> Entries(ev.properties)]

\* An Init event that declared the type A and a unit process with an input
\* of type A was accepted.
InitUsesOwnType ==
    /\ last = "Init"
    /\ success
    /\ state.version = 1
    /\ "A" \in DOMAIN state.custom_types
    /\ state.unit_process = <<NewUnit("u", <<NewData("d", "A", VStr("x"))>>, <<>>, <<>>)>>


-----------------------------------------------------------------------------
(* Primitive types.  The specification SpecPrimitives draws a primitive    *)
(* and gives the property p a value by each of the three ways a primitive  *)
(* types a slot.                                                           *)

\* Init gives the property p a primitive type_name, or the type_name T with
\* T a Basic primitive or a record whose one field a is a primitive;
\* ModifyProductionSystem replaces p likewise against the T of the document.
\* The content is a string, a boolean, null, an integer up to i64::MAX, an
\* integer above it, a negative integer, a number with a fraction, an array,
\* or an object: empty, with the key a and one of those, or with the key b.
PrimitiveEvents ==
    LET number(repr, above) == [k |-> "num", repr |-> repr, above_i64 |-> above]
        scalars == {VStr("x"), [k |-> "bool"], [k |-> "null"], VNum,
                    number("PosInt", TRUE), number("NegInt", FALSE),
                    number("Float", FALSE), [k |-> "arr", a |-> <<>>]}
        values == scalars \cup JsonObjects({"a"}, scalars)
                  \cup JsonObjects({"b"}, {VStr("x")})
        typed == {Some(<<<<"T", Basic([tag |-> p])>>>>) : p \in BuiltinTypeNames}
                 \cup {Some(<<<<"T", Object([f \in {"a"} |-> [tag |-> p]])>>>>) :
                         p \in BuiltinTypeNames}
        slots == {NewProperty("p", tn, v) : tn \in BuiltinTypeNames \cup {"T"}, v \in values}
    IN {ev \in [kind : {"Init"}, name : {"ps"}, types : {None} \cup typed,
                unit_process : {None}, properties : {Some(<<s>>) : s \in slots}] :
          (ev.types = None) = (ev.properties[1][1].type_name # "T")}
       \cup
       [kind : {"ModifyProductionSystem"}, name : {None}, delete_properties : {None},
        modify_properties : {Some(<<<<"p", s>>>>) : s \in slots},
        add_properties : {None}]

NextPrimitives ==
    \/ Handle(PrimitiveEvents, "Init")
    \/ Handle(PrimitiveEvents, "ModifyProductionSystem")

SpecPrimitives == Init /\ [][NextPrimitives]_vars

\* The JSON kind and range of the value match the primitive: a string for
\* String, a boolean for bool, a number for f64, an integer that is not
\* negative for u64 (it is at most u64::MAX), an integer that is negative or
\* at most i64::MAX for i64 (a negative one is at least i64::MIN).
PrimitiveAccepts(p, v) ==
    CASE p = "String" -> v.k = "str"
      [] p = "bool" -> v.k = "bool"
      [] p = "f64" -> v.k = "num"
      [] p = "u64" -> v.k = "num" /\ v.repr = "PosInt"
      [] p = "i64" -> v.k = "num" /\ (v.repr = "NegInt" \/ (v.repr = "PosInt" /\ ~v.above_i64))

\* The content matches the type_name under the schema, whose types are a
\* Basic primitive or a record with the one field a of a primitive type.
SlotAccepts(schema, type_name, content) ==
    IF type_name \notin DOMAIN schema THEN PrimitiveAccepts(type_name, content)
    ELSE IF schema[type_name].tag = "Basic"
    THEN PrimitiveAccepts(schema[type_name].t.tag, content)
    ELSE /\ content.k = "obj"
         /\ DOMAIN content.o = {"a"}
         /\ PrimitiveAccepts(schema[type_name].fields["a"].tag, content.o["a"])

\* C36: a property whose type_name is a primitive, a Basic primitive type or
\* a record with one field of a primitive type is accepted, by an Init on
\* the document of version 0 or by a ModifyProductionSystem that replaces
\* the property p of the document, if and only if the value (the content,
\* or the field of the content) matches the primitive in kind and range.
PrimitiveConformance ==
    \A ev \in PrimitiveEvents :
       IF ev.kind = "Init"
       THEN state.version = 0 =>
              (contract_logic(state, ev).success
                 <=> SlotAccepts(Defined(Entries(ev.types)),
                                 ev.properties[1][1].type_name,
                                 ev.properties[1][1].content))
       ELSE (/\ state.version # 0
             /\ Position(state.properties, "p") # 0
             /\ ev.modify_properties[1][1][2].type_name
                   \in DOMAIN state.custom_types \cup BuiltinTypeNames)
            => (contract_logic(state, ev).success
                  <=> SlotAccepts(state.custom_types,
                                  ev.modify_properties[1][1][2].type_name,
                                  ev.modify_properties[1][1][2].content))

\* The property p was replaced by one of type T, a record whose field a is
\* an i64, with a negative integer for the field.
NegativeFieldAccepted ==
    /\ last = "ModifyProductionSystem"
    /\ success
    /\ "T" \in DOMAIN state.custom_types
    /\ state.custom_types["T"] = Object([f \in {"a"} |-> [tag |-> "i64"]])
    /\ Len(state.properties) = 1
    /\ state.properties[1].type_name = "T"
    /\ state.properties[1].content.k = "obj"
    /\ state.properties[1].content.o["a"].repr = "NegInt"


-----------------------------------------------------------------------------
(* Type names of slots.  The specification SpecSlots defines unit          *)
(* processes and properties whose slots carry every kind of type_name.     *)

\* A slot has one of the type names: empty, the five primitives, the type T
\* that Init may declare, the undeclared Z, the five keywords; its content
\* is a string or, for u64 and the keywords, a number or an array.  A unit
\* process has one such slot as input, output or property, or an input of
\* type String whose metadata is such a slot.  Init defines the unit process u and the property p, both
\* well-formed, or one of the two with such a slot; ModifyUnitProcess adds w
\* or replaces u, ModifyProductionSystem adds q or replaces p.
SlotEvents ==
    LET keywords == {"Dummy", "Option", "Enum", "Vec", "Type"}
        typed == ((BuiltinTypeNames \cup {"", "T", "Z"} \cup keywords) \X {VStr("x")})
                 \cup ((keywords \cup {"u64"}) \X {VNum, [k |-> "arr", a |-> <<>>]})
        meta(s) == [NewData("d", "String", VStr("x")) EXCEPT
                      !.metadata = Some([type_name |-> s[1], content |-> s[2]])]
        units(n) == {NewUnit(n, <<NewData("d", s[1], s[2])>>, <<>>, <<>>) : s \in typed}
                    \cup {NewUnit(n, <<>>, <<NewData("d", s[1], s[2])>>, <<>>) : s \in typed}
                    \cup {NewUnit(n, <<>>, <<>>, <<NewProperty("d", s[1], s[2])>>) : s \in typed}
                    \cup {NewUnit(n, <<meta(s)>>, <<>>, <<>>) : s \in typed}
        properties(n) == {NewProperty(n, s[1], s[2]) : s \in typed}
        good == <<Some(<<NewUnit("u", <<>>, <<>>, <<>>)>>),
                  Some(<<NewProperty("p", "String", VStr("x"))>>)>>
    IN [kind : {"Init"}, name : {"ps"},
        types : {None, Some(<<<<"T", Basic(TString)>>>>)},
        unit_process : {good[1]}, properties : {good[2]}]
       \cup
       [kind : {"Init"}, name : {"ps"},
        types : {None, Some(<<<<"T", Basic(TString)>>>>)},
        unit_process : {Some(<<u>>) : u \in units("u")}, properties : {None}]
       \cup
       [kind : {"Init"}, name : {"ps"},
        types : {None, Some(<<<<"T", Basic(TString)>>>>)},
        unit_process : {None}, properties : {Some(<<p>>) : p \in properties("p")}]
       \cup
       [kind : {"ModifyUnitProcess"}, delete : {None}, modify : {None},
        add : {Some(<<u>>) : u \in units("w")}]
       \cup
       [kind : {"ModifyUnitProcess"}, delete : {None}, add : {None},
        modify : {Some(<<<<"u", u>>>>) : u \in units("u")}]
       \cup
       [kind : {"ModifyProductionSystem"}, name : {None}, delete_properties : {None},
        modify_properties : {None},
        add_properties : {Some(<<p>>) : p \in properties("q")}]
       \cup
       [kind : {"ModifyProductionSystem"}, name : {None}, delete_properties : {None},
        add_properties : {None},
        modify_properties : {Some(<<<<"p", p>>>>) : p \in properties("p")}]

NextSlots ==
    \/ Handle(SlotEvents, "Init")
    \/ Handle(SlotEvents, "ModifyUnitProcess")
    \/ Handle(SlotEvents, "ModifyProductionSystem")

SpecSlots == Init /\ [][NextSlots]_vars

\* The type names of the list of inputs or outputs, those of metadata
\* included.
DataTypeNames(list) ==
    {list[i].type_name : i \in DOMAIN list}
    \cup {Unwrap(list[i].metadata).type_name :
            i \in {j \in DOMAIN list : IsSome(list[j].metadata)}}

\* The type names of the unit processes and properties the event defines.
SlotTypeNames(ev) ==
    IF ev.kind = "ModifyProductionSystem"
    THEN {Entries(ev.add_properties)[i].type_name : i \in DOMAIN Entries(ev.add_properties)}
         \cup {Entries(ev.modify_properties)[i][2].type_name :
                 i \in DOMAIN Entries(ev.modify_properties)}
    ELSE UNION {DataTypeNames(u.inputs) \cup DataTypeNames(u.outputs)
                \cup {u.properties[i].type_name : i \in DOMAIN u.properties} :
                u \in DefinedUnits(ev)}
         \cup (IF ev.kind = "Init"
               THEN {Entries(ev.properties)[i].type_name : i \in DOMAIN Entries(ev.properties)}
               ELSE {})

\* C37: an Init, ModifyUnitProcess or ModifyProductionSystem event is
\* accepted only if every type_name of the unit processes and properties it
\* defines, metadata included, is not empty and is a key of the schema of
\* the document it leaves or one of String, i64, u64, f64, bool; none of
\* them is Dummy, Option, Enum, Vec or Type.
AcceptedTypeNamesKnown ==
    \A ev \in SlotEvents :
       contract_logic(state, ev).success
       => /\ "" \notin SlotTypeNames(ev)
          /\ SlotTypeNames(ev) \subseteq
                DOMAIN contract_logic(state, ev).state.custom_types \cup BuiltinTypeNames
          /\ SlotTypeNames(ev) \cap {"Dummy", "Option", "Enum", "Vec", "Type"} = {}

\* A ModifyUnitProcess whose unit process has a slot of type_name Vec has
\* just been rejected for the unknown type name, on a document that kept
\* its unit process u.
KeywordTypeNameRejected ==
    /\ last = "ModifyUnitProcess"
    /\ ~success
    /\ error = ErrAt("Check error: Unknown type name", "Vec")
    /\ UnitExists(state, "u")


-----------------------------------------------------------------------------
(* A record type by name and by reference.  The specification SpecRoutes   *)
(* gives the property p a value of the record type T, or a one-element     *)
(* array of the type V, a Vec of references to T.                          *)

\* Init declares T, a record with the fields a, or a and b, each a String or
\* an optional String, and V, a Vec of Type(T), and defines the property p
\* of type T with a value or of type V with the one-element array of a
\* value; ModifyProductionSystem replaces p likewise.  The values are a
\* string, a number, null, an array and the objects over the keys a, b and x
\* (not a field) with strings, numbers and nulls.
RouteEvents ==
    LET string == {TString, [tag |-> "Option", elem |-> TString]}
        records == {Object(f) : f \in [{"a"} -> string] \cup [{"a", "b"} -> string]}
        values == {VStr("x"), VNum, [k |-> "null"], [k |-> "arr", a |-> <<>>]}
                  \cup JsonObjects({"a", "b", "x"}, {VStr("x"), VNum, [k |-> "null"]})
        slots == {NewProperty("p", "T", v) : v \in values}
                 \cup {NewProperty("p", "V", [k |-> "arr", a |-> <<v>>]) : v \in values}
    IN [kind : {"Init"}, name : {"ps"},
        types : {Some(<<<<"T", f>>, <<"V", Basic([tag |-> "Vec", elem |-> TType("T")])>>>>) :
                   f \in records},
        unit_process : {None},
        properties : {Some(<<s>>) : s \in slots}]
       \cup
       [kind : {"ModifyProductionSystem"}, name : {None}, delete_properties : {None},
        modify_properties : {Some(<<<<"p", s>>>>) : s \in slots},
        add_properties : {None}]

NextRoutes ==
    \/ Handle(RouteEvents, "Init")
    \/ Handle(RouteEvents, "ModifyProductionSystem")

SpecRoutes == Init /\ [][NextRoutes]_vars

\* The property an event of SpecRoutes defines.
SlotOf(ev) ==
    IF ev.kind = "Init" THEN Unwrap(ev.properties)[1] ELSE Unwrap(ev.modify_properties)[1][2]

\* The event with its property of type T turned into one of type V with
\* the one-element array of its content.
ByReference(ev) ==
    LET s == NewProperty("p", "V", [k |-> "arr", a |-> <<SlotOf(ev).content>>])
    IN IF ev.kind = "Init" THEN [ev EXCEPT !.properties = Some(<<s>>)]
       ELSE [ev EXCEPT !.modify_properties = Some(<<<<"p", s>>>>)]

\* C38: an event that gives the property p a value of the record type T is
\* accepted if and only if the same event is accepted with the value as the
\* element of an array of type V, where the value is checked against a
\* Type reference to T.
DirectAndReferenceAgree ==
    \A ev \in RouteEvents :
       SlotOf(ev).type_name = "T"
       => (contract_logic(state, ev).success
             <=> contract_logic(state, ByReference(ev)).success)

\* The property p of type V was replaced by an array whose element, checked
\* against the reference to T, leaves out the optional field a of T and
\* has its required field b.
ReferencedRecordAccepted ==
    /\ last = "ModifyProductionSystem"
    /\ success
    /\ "T" \in DOMAIN state.custom_types
    /\ state.custom_types["T"].tag = "Object"
    /\ DOMAIN state.custom_types["T"].fields = {"a", "b"}
    /\ state.custom_types["T"].fields["a"].tag = "Option"
    /\ Len(state.properties) = 1
    /\ state.properties[1].type_name = "V"
    /\ DOMAIN state.properties[1].content.a[1].o = {"b"}


-----------------------------------------------------------------------------
(* Termination.  The specification SpecTermination runs the two recursions *)
(* of a call step by step in the variable work: check_cycle with has_cycle *)
(* on the reference graph of a batch of types added to the schema of the   *)
(* document, and check_data with check_value and deserialize on a value.   *)
(* A call in progress (op) is a stack of frames, the innermost first; a    *)
(* call that has returned leaves work idle with its verdict (of, ok).      *)

\* Init declares a batch of types; ModifyTypes deletes B, adds a batch, or
\* both.  The batches are over the types A and B: A refers to B through a
\* Vec, an optional field, a variant, by two fields, or to itself; B is a
\* String, a record, or a Vec of A.
TerminationEvents ==
    LET as == {Basic([tag |-> "Vec", elem |-> TType("B")]),
               Object([f \in {"r"} |-> [tag |-> "Option", elem |-> TType("B")]]),
               Basic(TEnum([v \in {"X", "Y"} |-> IF v = "X" THEN TType("B") ELSE TDummy])),
               Object([f \in {"r", "s"} |->
                         IF f = "r" THEN TType("B")
                         ELSE [tag |-> "Option", elem |-> TType("B")]]),
               Object([f \in {"r"} |-> TType("A")])}
        bs == {Basic(TString), Object([f \in {"s"} |-> TString]),
               Basic([tag |-> "Vec", elem |-> TType("A")])}
        batches == {<<<<"A", a>>>> : a \in as} \cup {<<<<"B", b>>>> : b \in bs}
                   \cup {<<<<"A", a>>, <<"B", b>>>> : a \in as, b \in bs}
    IN [kind : {"Init"}, name : {"ps"}, types : {Some(b) : b \in batches},
        unit_process : {None}, properties : {None}]
       \cup
       {ev \in [kind : {"ModifyTypes"}, delete : {None, Some(<<"B">>)},
                add : {None} \cup {Some(b) : b \in batches}] :
           ev.delete # None \/ ev.add # None}

\* check_cycle returns: Ok (ok) or the error of a circular dependency.  A
\* has_cycle that returns true makes every has_cycle above it, and then
\* check_cycle, return at once.
check_cycle_returns(w, ok) ==
    [op |-> "idle", of |-> "cycle", ok |-> ok, graph |-> w.graph, entered |-> w.entered]

\* A call has_cycle(node, graph, visited, stack): it returns true if node is
\* on the stack and false if it is visited; else it inserts node into both
\* sets and starts the loop over its neighbours in a new frame.  entered
\* counts the times the call gets past the two returns.
has_cycle_call(w, node) ==
    IF node \in w.stack THEN check_cycle_returns(w, FALSE)
    ELSE IF node \in w.visited THEN w
    ELSE [w EXCEPT !.visited = @ \cup {node},
                   !.stack = @ \cup {node},
                   !.entered[node] = @ + 1,
                   !.frames = <<[node |-> node,
                                 rest |-> IF node \in DOMAIN w.graph THEN w.graph[node]
                                          ELSE <<>>]>> \o @]

\* One step of check_cycle: inside has_cycle, the next neighbour of the
\* innermost frame, or stack.remove(node) and the return of false once the
\* neighbours are done; outside, the next key that is not visited, or the
\* return of Ok once the keys are done.
check_cycle_next(w) ==
    IF w.frames # <<>>
    THEN IF Head(w.frames).rest = <<>>
         THEN [w EXCEPT !.stack = @ \ {Head(w.frames).node}, !.frames = Tail(@)]
         ELSE has_cycle_call([w EXCEPT !.frames[1].rest = Tail(@)],
                             Head(Head(w.frames).rest))
    ELSE IF w.keys = <<>> THEN check_cycle_returns(w, TRUE)
    ELSE IF Head(w.keys) \in w.visited THEN [w EXCEPT !.keys = Tail(@)]
    ELSE has_cycle_call([w EXCEPT !.keys = Tail(@)], Head(w.keys))

\* check_data returns: Ok (ok) or an error, which every call in progress
\* passes up with `?`.
check_data_returns(w, ok) ==
    [op |-> "idle", of |-> "value", ok |-> ok,
     type_name |-> w.type_name, content |-> w.content]

\* The innermost call goes on as the frame.
frame_becomes(w, frame) == [w EXCEPT !.frames = <<frame>> \o Tail(@)]

\* The Fields::Object code of check_value and of deserialize for Type, up to
\* its loop over the fields: the value is an object with a number of fields
\* the type allows.
object_enter(w, hash_map, value) ==
    IF ~as_object(value) THEN check_data_returns(w, FALSE)
    ELSE IF \/ Cardinality(DOMAIN value.o)
                 < count_options(hash_map)[1] - count_options(hash_map)[2]
            \/ Cardinality(DOMAIN value.o) > count_options(hash_map)[1]
    THEN check_data_returns(w, FALSE)
    ELSE frame_becomes(w, [frame |-> "fields", hash_map |-> hash_map, object |-> value.o,
                           rest |-> KeyOrder(DOMAIN hash_map)])

\* One step of the loop over the fields of a record type: the field is
\* deserialized in a new frame, or missing (an error unless it is an
\* Option); after the loop, a field left in the object is an error.
fields_next(w, f) ==
    IF f.rest = <<>>
    THEN IF DOMAIN f.object \ DOMAIN f.hash_map # {} THEN check_data_returns(w, FALSE)
         ELSE [w EXCEPT !.frames = Tail(@)]
    ELSE IF Head(f.rest) \in DOMAIN f.object
    THEN [w EXCEPT !.frames = <<[frame |-> "deserialize",
                                 self |-> f.hash_map[Head(f.rest)],
                                 value |-> f.object[Head(f.rest)]],
                                [f EXCEPT !.rest = Tail(@)]>> \o Tail(@)]
    ELSE IF ~is_option(f.hash_map[Head(f.rest)]) THEN check_data_returns(w, FALSE)
    ELSE frame_becomes(w, [f EXCEPT !.rest = Tail(@)])

\* A faulty deserialize: for an Option it calls itself on the same type.
deserialize_enter_option_again(w, self, value, custom_types) ==
    CASE self.tag = "String" ->
           IF as_str(value) THEN [w EXCEPT !.frames = Tail(@)]
           ELSE check_data_returns(w, FALSE)
      [] self.tag = "u64" ->
           IF as_u64(value) THEN [w EXCEPT !.frames = Tail(@)]
           ELSE check_data_returns(w, FALSE)
      [] self.tag = "f64" ->
           IF as_f64(value) THEN [w EXCEPT !.frames = Tail(@)]
           ELSE check_data_returns(w, FALSE)
      [] self.tag = "i64" ->
           IF as_i64(value) THEN [w EXCEPT !.frames = Tail(@)]
           ELSE check_data_returns(w, FALSE)
      [] self.tag = "bool" ->
           IF as_bool(value) THEN [w EXCEPT !.frames = Tail(@)]
           ELSE check_data_returns(w, FALSE)
      [] self.tag = "Vec" ->
           IF ~as_array(value) THEN check_data_returns(w, FALSE)
           ELSE frame_becomes(w, [frame |-> "elements", vec_type |-> self.elem,
                                  rest |-> value.a])
      [] self.tag = "Enum" ->
           IF as_object(value)
           THEN IF Cardinality(DOMAIN value.o) # 1 THEN check_data_returns(w, FALSE)
                ELSE LET value_name == CHOOSE x \in DOMAIN value.o : TRUE
                     IN IF value_name \notin DOMAIN self.variants
                        THEN check_data_returns(w, FALSE)
                        ELSE frame_becomes(w, [frame |-> "deserialize",
                                               self |-> self.variants[value_name],
                                               value |-> value.o[value_name]])
           ELSE IF as_str(value)
           THEN IF value.s \in DOMAIN self.variants /\ self.variants[value.s].tag = "Dummy"
                THEN [w EXCEPT !.frames = Tail(@)]
                ELSE check_data_returns(w, FALSE)
           ELSE check_data_returns(w, FALSE)
      [] self.tag = "Type" ->
           IF self.name \notin DOMAIN custom_types THEN check_data_returns(w, FALSE)
           ELSE IF custom_types[self.name].tag = "Basic"
           THEN frame_becomes(w, [frame |-> "deserialize",
                                  self |-> custom_types[self.name].t, value |-> value])
           ELSE object_enter(w, custom_types[self.name].fields, value)
      [] self.tag = "Option" ->
           IF is_null(value) THEN [w EXCEPT !.frames = Tail(@)]
           ELSE frame_becomes(w, [frame |-> "deserialize", self |-> self, value |-> value])
      [] self.tag = "Dummy" -> check_data_returns(w, FALSE)

\* A call DynamicType::deserialize(self, value, custom_types), up to the
\* call it makes or the loop it starts: a primitive returns; a Vec starts
\* the loop over the elements; an Enum goes on with the payload of the
\* variant, a Type with the Basic type or the record it names, an Option
\* with its type unless the value is null.
deserialize_enter(w, self, value, custom_types) ==
    CASE self.tag = "String" ->
           IF as_str(value) THEN [w EXCEPT !.frames = Tail(@)]
           ELSE check_data_returns(w, FALSE)
      [] self.tag = "u64" ->
           IF as_u64(value) THEN [w EXCEPT !.frames = Tail(@)]
           ELSE check_data_returns(w, FALSE)
      [] self.tag = "f64" ->
           IF as_f64(value) THEN [w EXCEPT !.frames = Tail(@)]
           ELSE check_data_returns(w, FALSE)
      [] self.tag = "i64" ->
           IF as_i64(value) THEN [w EXCEPT !.frames = Tail(@)]
           ELSE check_data_returns(w, FALSE)
      [] self.tag = "bool" ->
           IF as_bool(value) THEN [w EXCEPT !.frames = Tail(@)]
           ELSE check_data_returns(w, FALSE)
      [] self.tag = "Vec" ->
           IF ~as_array(value) THEN check_data_returns(w, FALSE)
           ELSE frame_becomes(w, [frame |-> "elements", vec_type |-> self.elem,
                                  rest |-> value.a])
      [] self.tag = "Enum" ->
           IF as_object(value)
           THEN IF Cardinality(DOMAIN value.o) # 1 THEN check_data_returns(w, FALSE)
                ELSE LET value_name == CHOOSE x \in DOMAIN value.o : TRUE
                     IN IF value_name \notin DOMAIN self.variants
                        THEN check_data_returns(w, FALSE)
                        ELSE frame_becomes(w, [frame |-> "deserialize",
                                               self |-> self.variants[value_name],
                                               value |-> value.o[value_name]])
           ELSE IF as_str(value)
           THEN IF value.s \in DOMAIN self.variants /\ self.variants[value.s].tag = "Dummy"
                THEN [w EXCEPT !.frames = Tail(@)]
                ELSE check_data_returns(w, FALSE)
           ELSE check_data_returns(w, FALSE)
      [] self.tag = "Type" ->
           IF self.name \notin DOMAIN custom_types THEN check_data_returns(w, FALSE)
           ELSE IF custom_types[self.name].tag = "Basic"
           THEN frame_becomes(w, [frame |-> "deserialize",
                                  self |-> custom_types[self.name].t, value |-> value])
           ELSE object_enter(w, custom_types[self.name].fields, value)
      [] self.tag = "Option" ->
           IF is_null(value) THEN [w EXCEPT !.frames = Tail(@)]
           ELSE frame_becomes(w, [frame |-> "deserialize", self |-> self.elem,
                                  value |-> value])
      [] self.tag = "Dummy" -> check_data_returns(w, FALSE)

\* One step of check_data: the return of Ok once no call is in progress,
\* else the step of the innermost frame (Fields::check_value, deserialize,
\* the loop over the fields of a record, the loop over the elements of a
\* Vec).
check_data_next(w, custom_types) ==
    IF w.frames = <<>> THEN check_data_returns(w, TRUE)
    ELSE LET f == Head(w.frames)
         IN CASE f.frame = "check_value" ->
                   IF f.self.tag = "Basic"
                   THEN frame_becomes(w, [frame |-> "deserialize", self |-> f.self.t,
                                          value |-> f.data])
                   ELSE object_enter(w, f.self.fields, f.data)
              [] f.frame = "deserialize" ->
                   deserialize_enter(w, f.self, f.value, custom_types)
              [] f.frame = "fields" -> fields_next(w, f)
              [] f.frame = "elements" ->
                   IF f.rest = <<>> THEN [w EXCEPT !.frames = Tail(@)]
                   ELSE [w EXCEPT !.frames = <<[frame |-> "deserialize",
                                                self |-> f.vec_type,
                                                value |-> Head(f.rest)],
                                               [f EXCEPT !.rest = Tail(@)]>> \o Tail(@)]

\* add_types calls check_cycle on the reference graph of a batch (one of
\* those of the Init events) merged into the schema of the document, every
\* type of the merged schema having passed its check.
BeginCheckCycle ==
    /\ work.op = "idle"
    /\ \E ev \in {e \in TerminationEvents : e.kind = "Init"} :
          LET temporal_types == insert_all(state.custom_types, Unwrap(ev.types))
              r == add_types_loop(KeyOrder(DOMAIN temporal_types), temporal_types,
                                  [error |-> Ok, cycle_types |-> EmptyMap])
          IN /\ r.error = Ok
             /\ work' = [op |-> "cycle", of |-> "cycle", graph |-> r.cycle_types,
                         keys |-> KeyOrder(DOMAIN r.cycle_types),
                         visited |-> {}, stack |-> {}, frames |-> <<>>,
                         entered |-> [n \in DOMAIN r.cycle_types |-> 0]]
    /\ UNCHANGED <<state, success, error, last, initialized>>

CheckCycleStep ==
    /\ work.op = "cycle"
    /\ work' = check_cycle_next(work)
    /\ UNCHANGED <<state, success, error, last, initialized>>

\* check_data is called for a slot whose type_name is a type of the schema,
\* or String, and whose content is a string, a number, null, an array or an
\* object, with and without values one level further in.
BeginCheckData ==
    /\ work.op = "idle"
    /\ \E type_name \in DOMAIN state.custom_types \cup {"String"} :
       \E content \in
             LET object(keys, v) == [k |-> "obj", o |-> [f \in keys |-> v]]
                 array(a) == [k |-> "arr", a |-> a]
                 inner == object({"s"}, VStr("x"))
             IN {VStr("x"), VStr("Y"), VNum, [k |-> "null"],
                 array(<<>>), array(<<VStr("x")>>), array(<<VStr("x"), VNum>>),
                 array(<<inner>>),
                 object({}, VNum), object({"r"}, [k |-> "null"]), object({"r"}, VStr("x")),
                 object({"r"}, inner), inner, object({"X"}, VStr("x")),
                 object({"X"}, inner), object({"r", "s"}, VStr("x"))} :
          work' = [op |-> "value", of |-> "value",
                   type_name |-> type_name, content |-> content,
                   frames |-> IF type_name \in DOMAIN state.custom_types
                              THEN <<[frame |-> "check_value",
                                      self |-> state.custom_types[type_name],
                                      data |-> content]>>
                              ELSE <<[frame |-> "deserialize",
                                      self |-> [tag |-> type_name],
                                      value |-> content]>>]
    /\ UNCHANGED <<state, success, error, last, initialized>>

CheckDataStep ==
    /\ work.op = "value"
    /\ work' = check_data_next(work, state.custom_types)
    /\ UNCHANGED <<state, success, error, last, initialized>>

\* A call is handled only when none is in progress.
NextTermination ==
    \/ work.op = "idle" /\ Handle(TerminationEvents, "Init")
    \/ work.op = "idle" /\ Handle(TerminationEvents, "ModifyTypes")
    \/ BeginCheckCycle
    \/ CheckCycleStep
    \/ BeginCheckData
    \/ CheckDataStep

\* The code is sequential: a call in progress takes its next step.
SpecTermination ==
    Init /\ [][NextTermination]_vars /\ WF_vars(CheckCycleStep \/ CheckDataStep)

\* C39: a check_cycle or a check_data in progress on a document the events
\* reach returns; has_cycle gets past its two early returns at most once
\* for each type; a value is checked against a schema without a cycle of
\* references.
ValidationTerminates ==
    /\ [](work.of = "cycle" => \A n \in DOMAIN work.entered : work.entered[n] <= 1)
    /\ [](work.op = "value" => ~HasReferenceCycle(state.custom_types))
    /\ (work.op # "idle") ~> (work.op = "idle")

\* check_data has returned Ok for an array of one record checked against A,
\* a Vec of references to the record type B.
NestedValueValidated ==
    /\ work.op = "idle"
    /\ work.of = "value"
    /\ work.ok
    /\ work.type_name = "A"
    /\ work.content = [k |-> "arr", a |-> <<[k |-> "obj", o |-> [f \in {"s"} |-> VStr("x")]]>>]
    /\ {"A", "B"} \subseteq DOMAIN state.custom_types
    /\ state.custom_types["A"] = Basic([tag |-> "Vec", elem |-> TType("B")])

=============================================================================
